---- MODULE Spec2Model ----
(***************************************************************************)
(* Model of the scratchpad orchestration core: the scratch lifecycle       *)
(* manager (src/src/scratch/lifecycle.rs), the shared service provisioner  *)
(* (src/src/services/shared.rs, postgres.rs) and the routing generator     *)
(* (src/src/nginx/config.rs), over an abstract disk, container runtime and *)
(* database engine.  Each caller is a process; every await point of an     *)
(* operation is one step, so operations of different callers interleave.   *)
(***************************************************************************)
EXTENDS Integers, Sequences, FiniteSets, TLC

(***************************************************************************)
(* Bounds                                                                  *)
(***************************************************************************)
\* number of calls issued in one behaviour by a single caller
MaxOps == 3

\* number of calls issued in one behaviour by concurrent callers
MaxConcOps == 2

\* number of direct database calls in one behaviour
MaxDbOps == 3

\* number of frames, broadcasts, polls and cleanup passes in one behaviour
MaxHubOps == 3
\* capacity of an observer's queue: mpsc::channel(100), scaled down
MaxQueue == 1
\* frames the observers send while the poller runs
MaxFrames == 2

\* length of the branch strings given to sanitize_name
MaxLen == 3

Procs == {"p1", "p2"}

(***************************************************************************)
(* Strings are sequences of one-character strings.                         *)
(***************************************************************************)
ChrPostgres == <<"p", "o", "s", "t", "g", "r", "e", "s">>
ChrRedis == <<"r", "e", "d", "i", "s">>
ChrWeb == <<"w", "e", "b">>
ChrApi == <<"a", "p", "i">>

\* character form of a catalogue key
KeyChars(k) ==
    CASE k = "postgres" -> ChrPostgres
      [] k = "redis" -> ChrRedis
      [] k = "web" -> ChrWeb
      [] k = "api" -> ChrApi
      [] OTHER -> <<"x">>

Letters == {"a", "b", "c", "d", "e", "g", "h", "i", "o", "p", "r", "s", "t", "w", "x"}
Uppers == {"A", "B"}
Digits == {"1"}

\* letters outside ASCII; "U+00E9" stands for the one character e-acute and
\* "U+00C9" for the one character E-acute, its uppercase form
NonAsciiLetters == {"U+00E9", "U+00C9"}

\* char::is_uppercase: the Unicode Uppercase characters
IsUppercase(c) == c \in Uppers \cup {"U+00C9"}

\* char::is_alphanumeric: the Unicode Alphabetic and Numeric characters
IsAlphanumeric(c) == c \in Letters \cup Uppers \cup Digits \cup NonAsciiLetters

\* char::to_ascii_lowercase
ToAsciiLowercase(c) ==
    CASE c = "A" -> "a"
      [] c = "B" -> "b"
      [] OTHER -> c

\* first pass of sanitize_name: map every character
RECURSIVE MapChars(_)
MapChars(s) ==
    IF s = <<>> THEN <<>>
    ELSE LET c == Head(s)
         IN  <<IF IsAlphanumeric(c) \/ c = "-" \/ c = "_"
                 THEN ToAsciiLowercase(c) ELSE "-">> \o MapChars(Tail(s))

\* variant: last_was_dash is not set when a dash is pushed
RECURSIVE CollapseDashesUnset(_, _, _)
CollapseDashesUnset(s, result, last_was_dash) ==
    IF s = <<>> THEN result
    ELSE IF Head(s) = "-"
         THEN IF ~last_was_dash
              THEN CollapseDashesUnset(Tail(s), Append(result, "-"), last_was_dash)
              ELSE CollapseDashesUnset(Tail(s), result, last_was_dash)
         ELSE CollapseDashesUnset(Tail(s), Append(result, Head(s)), FALSE)

\* second pass of sanitize_name: drop leading dashes, collapse runs
RECURSIVE CollapseDashes(_, _, _)
CollapseDashes(s, result, last_was_dash) ==
    IF s = <<>> THEN result
    ELSE IF Head(s) = "-"
         THEN IF ~last_was_dash
              THEN CollapseDashes(Tail(s), Append(result, "-"), TRUE)
              ELSE CollapseDashes(Tail(s), result, last_was_dash)
         ELSE CollapseDashes(Tail(s), Append(result, Head(s)), FALSE)

\* Scratch::sanitize_name
sanitize_name(branch) ==
    LET result == CollapseDashes(MapChars(branch), <<>>, TRUE)
    IN  IF result # <<>> /\ result[Len(result)] = "-"
        THEN SubSeq(result, 1, Len(result) - 1)
        ELSE result

\* Option<String> over character sequences, and over catalogue keys
None == [some |-> FALSE, val |-> <<>>]
Some(x) == [some |-> TRUE, val |-> x]
NoKey == [some |-> FALSE, val |-> ""]

\* format!("scratch_{}", scratch_name)
DbNameOf(scratch_name) == <<"s", "c", "r", "a", "t", "c", "h", "_">> \o scratch_name

\* db_name.chars().all(|c| c.is_alphanumeric() || c == '_')
ValidDbName(db_name) ==
    \A i \in 1..Len(db_name) : IsAlphanumeric(db_name[i]) \/ db_name[i] = "_"

\* variant: the key is left out of the name
SharedContainerNameFixed(service_name) ==
    <<"s", "c", "r", "a", "t", "c", "h", "p", "a", "d", "-">>

\* format!("scratchpad-{}", service_name)
SharedContainerName(service_name) ==
    <<"s", "c", "r", "a", "t", "c", "h", "p", "a", "d", "-">> \o KeyChars(service_name)

\* container_name: "{{ scratch.name }}-{{ service.name }}"
ScratchContainerName(scratch_name, service_name) ==
    scratch_name \o <<"-">> \o KeyChars(service_name)

(***************************************************************************)
(* Configuration: the service catalogue and the settings the operations    *)
(* read.  The catalogue is fixed; the routing settings are chosen at start.*)
(***************************************************************************)
CatalogueKeys == {"postgres", "redis", "web", "api"}

\* config.get_service(key)
Catalogue(k) ==
    CASE k = "postgres" -> [shared |-> TRUE, auto_create_db |-> TRUE, healthcheck |-> TRUE]
      [] k = "redis" -> [shared |-> TRUE, auto_create_db |-> FALSE, healthcheck |-> FALSE]
      [] OTHER -> [shared |-> FALSE, auto_create_db |-> FALSE, healthcheck |-> FALSE]

\* config.scratch.services
DefaultServices == <<"web">>

\* config.get_profile(profile).services, falling back to the default
ProfileServices(profile) ==
    IF profile.some /\ profile.val = "full" THEN <<"postgres", "web", "api">>
    ELSE DefaultServices

\* the routing settings a deployment can have
RoutingConfigs ==
    { [enabled |-> FALSE, ingress_service |-> "web", dynamic |-> TRUE],
      [enabled |-> TRUE, ingress_service |-> "", dynamic |-> TRUE],
      [enabled |-> TRUE, ingress_service |-> "web", dynamic |-> TRUE],
      [enabled |-> TRUE, ingress_service |-> "web", dynamic |-> FALSE] }

(***************************************************************************)
(* Inputs                                                                  *)
(***************************************************************************)
\* create(branch, name?): a branch with the name left to default, or an
\* explicit name
CreateInputs ==
    { [branch |-> <<"a">>, name |-> None],
      [branch |-> <<"a", "/", "b">>, name |-> None],
      [branch |-> <<"!">>, name |-> None],
      [branch |-> <<"a">>, name |-> Some(<<>>)],
      [branch |-> <<"a">>, name |-> Some(<<"a">>)] }

\* create with an explicit name that is not the sanitized form of any string
UnsanitizedInputs == { [branch |-> <<"a">>, name |-> Some(<<"A">>)] }

\* the inputs of create explored with the given callers: a single caller
\* also passes the unsanitized explicit name
CreateInputsOf(callers) ==
    IF callers = Procs THEN CreateInputs ELSE CreateInputs \cup UnsanitizedInputs

Profiles == { NoKey, Some("full") }
TargetNames == { <<"a">>, <<"a", "-", "b">> }
EnsureKeys == { "postgres", "redis", "web", "nope" }

\* database names handed to create_postgres_database / drop_postgres_database
DbNames ==
    { <<"a", "_", "1">>, <<"A", "b">>, <<"a", "-", "b">>, <<"a", " ", "b">>,
      <<"a", ".", "b">>, <<"a", "U+00E9">> }

(***************************************************************************)
(* State                                                                   *)
(***************************************************************************)
VARIABLES
    cfg,          \* routing settings of the shared configuration object
    dirs,         \* names of the directories under the releases root
    composeFile,  \* compose.yml of a directory: the rendered service keys
    metaFile,     \* .scratchpad.toml of a directory
    network,      \* the shared bridge network exists
    containers,   \* containers known to the runtime
    databases,    \* logical databases in the shared database engine
    routingFile,  \* the proxy configuration file
    pc,           \* position of each caller
    call,         \* the call each caller is executing
    res,          \* result of the call
    loc,          \* locals of the call
    ops,          \* calls issued so far
    prev,         \* the key of the call that returned last, when it was a
                  \* successful ensure_shared_service_running, else ""
    timedOut,     \* the key of an ensure_shared_service_running that returned
                  \* the health-check timeout, once one has, else ""
    okAll,        \* no create or delete call has returned an error
    active,       \* callers that issue calls
    budget,       \* calls they issue altogether
    subscribers,  \* WsBroadcastHub.subscribers: channel -> senders, in order
    sinks,        \* per observer connection: its mpsc channel (receiver
                  \* alive, buffered messages)
    conns,        \* per observer connection: position of handle_socket, its
                  \* subscribed_channels, and its sender_task
    hubLast,      \* the last operation the hub or a connection handled
    listing,      \* what the last list_scratches / get_scratch_status returned
    san,          \* a branch string and what sanitize_name returned for it
    lock,         \* the RwLock around WsBroadcastHub.subscribers: the tasks
                  \* holding read access and the queue of waiting requests
    tasks         \* the tasks of the server that use the hub: the poller,
                  \* the connection handlers, another caller of broadcast

vars == <<cfg, dirs, composeFile, metaFile, network, containers, databases,
          routingFile, pc, call, res, loc, ops, prev, timedOut, okAll, active, budget,
          subscribers, sinks, conns, hubLast, listing, san, lock, tasks>>

disk == <<dirs, composeFile, metaFile>>
runtime == <<network, containers, databases>>
world == <<dirs, composeFile, metaFile, network, containers, databases, routingFile>>
hub == <<subscribers, sinks, conns, hubLast>>
callState == <<pc, call, res, loc, ops, prev, timedOut, okAll, active, budget>>

NoCall == [op |-> "none", name |-> <<>>, key |-> "", services |-> <<>>, branch |-> <<>>,
           force |-> FALSE]

NoLoc == [dbs |-> <<>>, dropFailed |-> FALSE, polls |-> 0, todo |-> {}, ret |-> "",
          failedAt |-> "", nCreate |-> 0, nStart |-> 0, nUp |-> 0, nDown |-> 0,
          nConnect |-> 0, nStmt |-> 0, nDrop |-> 0]

NoRouting == [written |-> FALSE, mode |-> "", upstreams |-> <<>>, routes |-> <<>>]

Errors == {"InvalidScratchName", "ScratchAlreadyExists", "ScratchNotFound",
           "ServiceNotFound", "Config", "Database", "Docker", "Io", "Other"}

\* the observer connections of the push channel
Observers == {"o1", "o2"}

NoConn == [pc |-> "none", subscribed_channels |-> <<>>, todo |-> <<>>, sender_task |-> "none"]

NoSink == [open |-> FALSE, queue |-> <<>>]

\* ServerMessage; n tells the messages of different operations apart, as
\* the timestamp does
ServerMessage(type, scratch, service, body, n) ==
    [type |-> type, scratch |-> scratch, service |-> service, body |-> body, n |-> n]

NoMessage == ServerMessage("none", <<>>, <<>>, <<>>, 0)

NoHubOp == [n |-> 0, op |-> "none", channel |-> <<>>, by |-> "", msg |-> NoMessage,
            channels |-> {}]

NoListing == [op |-> "none", name |-> <<>>, res |-> "none", entries |-> <<>>]

\* sanitize_name has not been called
NoSanitize == [branch |-> <<>>, result |-> None, again |-> None]

\* RwLock::new: nobody holds the lock, nobody waits for it
NoLock == [readers |-> {}, waiting |-> <<>>]

\* the tasks that use the hub: the poller (events.rs), the handle_socket of
\* each observer, and one more caller of WsBroadcastHub::broadcast
Tasks == {"poller", "caller"} \cup Observers

\* a task outside the hub; seen is the status the poller published last for
\* each container name
NoTask == [pc |-> "idle", op |-> "none", channel |-> <<>>, msg |-> NoMessage,
           targets |-> <<>>, todo |-> <<>>, seen |-> << >>]

NoTasks == [t \in Tasks |-> NoTask]

\* no caller has issued a call
IdleCallers(callers, calls) ==
    /\ pc = [p \in Procs |-> "idle"]
    /\ call = [p \in Procs |-> NoCall]
    /\ res = [p \in Procs |-> "none"]
    /\ loc = [p \in Procs |-> NoLoc]
    /\ ops = 0
    /\ prev = ""
    /\ timedOut = ""
    /\ okAll = TRUE
    /\ active = callers
    /\ budget = calls

\* WsBroadcastHub::new(), no observer connected; nothing listed yet
IdleHub ==
    /\ subscribers = << >>
    /\ sinks = [o \in Observers |-> NoSink]
    /\ conns = [o \in Observers |-> NoConn]
    /\ hubLast = NoHubOp
    /\ listing = NoListing
    /\ san = NoSanitize
    /\ lock = NoLock
    /\ tasks = NoTasks

InitWith(callers, calls, settings) ==
    /\ cfg \in settings
    /\ dirs = {}
    /\ composeFile = << >>
    /\ metaFile = << >>
    /\ network = FALSE
    /\ containers = {}
    /\ databases = {}
    /\ routingFile = NoRouting
    /\ IdleCallers(callers, calls)
    /\ IdleHub

\* the routing settings explored with concurrent callers: routing disabled,
\* and static routing, which reads the scratch list
ConcRoutingConfigs == { c \in RoutingConfigs : ~c.enabled \/ ~c.dynamic }

Init == InitWith(Procs, MaxConcOps, ConcRoutingConfigs)

InitSeq == InitWith({"p1"}, MaxOps, RoutingConfigs)

(***************************************************************************)
(* Helpers                                                                 *)
(***************************************************************************)
\* write or overwrite a file of directory n
WriteFile(f, n, v) == [x \in DOMAIN f \cup {n} |-> IF x = n THEN v ELSE f[x]]

\* variant: the file outlives its directory
RemoveFileKept(f, n) == f

\* the files left after removing directory n
RemoveFile(f, n) == [x \in DOMAIN f \ {n} |-> f[x]]

\* the call of p ends with result r; at names the step that failed
Finish(p, r, at) ==
    /\ pc' = [pc EXCEPT ![p] = "done"]
    /\ res' = [res EXCEPT ![p] = r]
    /\ loc' = [loc EXCEPT ![p].failedAt = at]

\* same, with the locals already updated to l
FinishWith(p, r, at, l) ==
    /\ pc' = [pc EXCEPT ![p] = "done"]
    /\ res' = [res EXCEPT ![p] = r]
    /\ loc' = [loc EXCEPT ![p] = [l EXCEPT !.failedAt = at]]

Goto(p, next) ==
    /\ pc' = [pc EXCEPT ![p] = next]
    /\ UNCHANGED res

\* the call just issued by p continues at next
Enter(p, next) ==
    /\ pc' = [pc EXCEPT ![p] = next]
    /\ res' = [res EXCEPT ![p] = "none"]

\* a call can be issued by p: p has no call in progress; callers being
\* interchangeable, the first call of a behaviour is issued by p1
CanCall(p) ==
    /\ p \in active
    /\ pc[p] \in {"idle", "done"}
    /\ ops < budget
    /\ p = "p1" \/ ops > 0

\* p issues call c; the result of its previous call has been received
Issue(p, c) ==
    /\ call' = [call EXCEPT ![p] = c]
    /\ ops' = ops + 1
    /\ prev' = IF call[p].op = "ensure" /\ res[p] = "Ok" THEN call[p].key ELSE ""
    /\ timedOut' = IF call[p].op = "ensure" /\ res[p] = "Other" /\ loc[p].failedAt = "e_wait"
                   THEN call[p].key ELSE timedOut
    /\ okAll' = (okAll /\ ~(call[p].op \in {"create", "delete"} /\ res[p] # "Ok"))

\* the services of a scratch that the rendered specification contains:
\* render_template skips shared catalogue entries
RenderedServices(services) ==
    SelectSeq(services, LAMBDA k : k \in CatalogueKeys /\ ~Catalogue(k).shared)

\* create provisions a database: a declared service that is shared, has
\* auto_create_db and is named "postgres"
NeedsDatabase(services) ==
    \E i \in 1..Len(services) :
        /\ services[i] \in CatalogueKeys
        /\ Catalogue(services[i]).shared
        /\ Catalogue(services[i]).auto_create_db
        /\ services[i] = "postgres"

(***************************************************************************)
(* The container runtime, the compose subprocess and the database engine   *)
(***************************************************************************)
\* wait_for_healthy(docker, &container_name, 30)
timeout_secs == 30

\* the runtime's record of a container
Container(name, state, health, scratch, service, shared) ==
    [name |-> name, state |-> state, health |-> health,
     scratch |-> scratch, service |-> service, shared |-> shared]

\* list_shared_service_containers: the containers carrying the shared-service label
list_shared_service_containers == { c \in containers : c.shared.some }

\* list_scratch_containers(None): the containers carrying the scratch label
list_scratch_containers == { c \in containers : c.scratch.some }

\* variant: the start request has no effect on the container
StartedContainerNotRunning(c) == c

\* the runtime starts a container; a declared health check starts over
StartedContainer(c) ==
    [c EXCEPT !.state = "running",
              !.health = IF c.health = "none" THEN "none" ELSE "starting"]

\* the runtime stops a container
StoppedContainer(c) ==
    [c EXCEPT !.state = "exited",
              !.health = IF c.health = "none" THEN "none" ELSE "starting"]

\* the containers the rendered specification of directory n names
ComposeContainers(n) ==
    { Container(ScratchContainerName(n, composeFile[n][i]), "running", "none",
                Some(n), Some(composeFile[n][i]), NoKey) : i \in 1..Len(composeFile[n]) }

\* "docker compose up -d" / "docker compose down" can act in directory n
ComposeUsable(n) == n \in dirs /\ n \in DOMAIN composeFile

\* a container name of the specification is taken by a foreign container
ComposeConflict(n) ==
    \E c \in containers, d \in ComposeContainers(n) :
        c.name = d.name /\ c.scratch # Some(n)

\* variant: "up" removes the containers that are not the project's
AfterUpAlone(n) == ComposeContainers(n)

\* containers after a successful "up": the project's containers exist and run
AfterUp(n) ==
    { c \in containers : \A d \in ComposeContainers(n) : c.name # d.name }
        \cup ComposeContainers(n)

\* variant: "down" removes every container, not only the project's
AfterDownAll(n) == {}

\* containers after a successful "down": the project's containers are removed
AfterDown(n) ==
    { c \in containers : \A d \in ComposeContainers(n) : c.name # d.name }

\* the database engine accepts connections
EngineUp ==
    \E c \in containers : c.name = SharedContainerName("postgres") /\ c.state = "running"

(***************************************************************************)
(* list_scratches                                                          *)
(***************************************************************************)
CharCode(c) ==
    CASE c = "!" -> 33 [] c = "-" -> 45 [] c = "/" -> 47 [] c = "1" -> 49
      [] c = "A" -> 65 [] c = "B" -> 66 [] c = "_" -> 95
      [] c = "a" -> 97 [] c = "b" -> 98 [] c = "c" -> 99 [] c = "d" -> 100
      [] c = "e" -> 101 [] c = "g" -> 103 [] c = "h" -> 104 [] c = "i" -> 105
      [] c = "o" -> 111 [] c = "p" -> 112 [] c = "r" -> 114 [] c = "s" -> 115
      [] c = "t" -> 116 [] c = "w" -> 119 [] OTHER -> 120

\* a.name.cmp(&b.name) is Less or Equal
RECURSIVE StrLeq(_, _)
StrLeq(a, b) ==
    IF a = <<>> THEN TRUE
    ELSE IF b = <<>> THEN FALSE
    ELSE IF CharCode(Head(a)) # CharCode(Head(b)) THEN CharCode(Head(a)) < CharCode(Head(b))
    ELSE StrLeq(Tail(a), Tail(b))

\* scratches.sort_by(|a, b| a.name.cmp(&b.name)) over a set of distinct names
RECURSIVE SortNames(_)
SortNames(S) ==
    IF S = {} THEN <<>>
    ELSE LET m == CHOOSE x \in S : \A y \in S : StrLeq(x, y)
         IN  <<m>> \o SortNames(S \ {m})

\* the names list_scratches returns: one entry per directory, sorted
ListNames == SortNames(dirs)

ListedNames == { ListNames[i] : i \in 1..Len(ListNames) }

(***************************************************************************)
(* ensure_shared_service_running (src/src/services/shared.rs)              *)
(***************************************************************************)
\* the shared-service call of p returns Ok to its caller
EnsureOk(p, l) ==
    IF l.ret = "done"
    THEN FinishWith(p, "Ok", "", l)
    ELSE /\ pc' = [pc EXCEPT ![p] = l.ret]
         /\ loc' = [loc EXCEPT ![p] = l]
         /\ UNCHANGED res

\* variant: the listed names keep the runtime's leading '/'
ExistingSharedUntrimmed(key) ==
    { c \in list_shared_service_containers : <<"/">> \o c.name = SharedContainerName(key) }

\* containers.iter().find(|c| c.name == container_name)
ExistingShared(key) ==
    { c \in list_shared_service_containers : c.name = SharedContainerName(key) }

\* lines 15-45: catalogue checks, listing, the already-running shortcut
EnsureList(p) ==
    /\ pc[p] = "e_list"
    /\ LET key == call[p].key
       IN  IF key \notin CatalogueKeys
           THEN Finish(p, "ServiceNotFound", "e_list")
           ELSE IF ~Catalogue(key).shared
           THEN Finish(p, "Config", "e_list")
           ELSE \/ Finish(p, "Docker", "e_list")
                \/ IF ExistingShared(key) # {}
                   THEN IF \E c \in ExistingShared(key) : c.state = "running"
                        THEN EnsureOk(p, loc[p])
                        ELSE Goto(p, "e_start") /\ UNCHANGED loc
                   ELSE Goto(p, "e_create") /\ UNCHANGED loc
    /\ UNCHANGED <<world, cfg, hub, listing, san, call, ops, prev, timedOut, okAll, active, budget, lock, tasks>>

\* line 42: docker.start_container(&container.id)
EnsureStart(p) ==
    /\ pc[p] = "e_start"
    /\ LET name == SharedContainerName(call[p].key)
           l == [loc[p] EXCEPT !.nStart = @ + 1]
       IN  \/ FinishWith(p, "Docker", "e_start", l) /\ UNCHANGED containers
           \/ /\ \E c \in containers : c.name = name
              /\ containers' = { IF c.name = name THEN StartedContainer(c) ELSE c : c \in containers }
              /\ EnsureOk(p, l)
    /\ UNCHANGED <<disk, network, databases, routingFile, cfg, hub, listing, san, call, ops, prev, timedOut, okAll, active, budget, lock, tasks>>

\* lines 47-100 with containers.rs 108-170: create the container; the
\* runtime refuses a name that is already in use
EnsureCreate(p) ==
    /\ pc[p] = "e_create"
    /\ LET key == call[p].key
           name == SharedContainerName(key)
           l == [loc[p] EXCEPT !.nCreate = @ + 1]
       IN  \/ FinishWith(p, "Docker", "e_create", l) /\ UNCHANGED containers
           \/ /\ \A c \in containers : c.name # name
              /\ containers' = containers \cup
                    { Container(name, "created",
                                IF Catalogue(key).healthcheck THEN "starting" ELSE "none",
                                None, NoKey, Some(key)) }
              /\ pc' = [pc EXCEPT ![p] = "e_cstart"]
              /\ loc' = [loc EXCEPT ![p] = l]
              /\ UNCHANGED res
    /\ UNCHANGED <<disk, network, databases, routingFile, cfg, hub, listing, san, call, ops, prev, timedOut, okAll, active, budget, lock, tasks>>

\* containers.rs 172-177 and shared.rs 104-109: start the created container
EnsureCreateStart(p) ==
    /\ pc[p] = "e_cstart"
    /\ LET key == call[p].key
           name == SharedContainerName(key)
       IN  \/ Finish(p, "Docker", "e_cstart") /\ UNCHANGED containers
           \/ /\ containers' = { IF c.name = name THEN StartedContainer(c) ELSE c : c \in containers }
              /\ IF Catalogue(key).healthcheck
                 THEN Goto(p, "e_wait") /\ loc' = [loc EXCEPT ![p].polls = 0]
                 ELSE EnsureOk(p, loc[p])
    /\ UNCHANGED <<disk, network, databases, routingFile, cfg, hub, listing, san, call, ops, prev, timedOut, okAll, active, budget, lock, tasks>>

\* what inspect_container can report for container c: by the time of the
\* inspection the health check of a running container may have started to pass
Inspect(c) ==
    {c} \cup ( IF c.state = "running" /\ c.health = "starting"
               THEN { [c EXCEPT !.health = "healthy"] } ELSE {} )

\* info.state of inspect_container reports the container ready
ReportsHealthy(c) ==
    IF c.health # "none" THEN c.health = "healthy" ELSE c.state = "running"

\* variant: the loop runs over 0..timeout_secs - 1 exclusive
WaitExhaustedEarly(polls) == polls + 1 >= timeout_secs - 1

\* `for _ in 0..timeout_secs`: the iteration that just ran was the last one
WaitExhausted(polls) == polls + 1 >= timeout_secs

\* wait_for_healthy: one iteration of the polling loop
EnsureWait(p) ==
    /\ pc[p] = "e_wait"
    /\ LET name == SharedContainerName(call[p].key)
       IN  \/ FinishWith(p, "Docker", "e_wait", [loc[p] EXCEPT !.polls = 0])
             /\ UNCHANGED containers
           \/ \E c \in containers : \E h \in Inspect(c) :
                 /\ c.name = name
                 /\ containers' = (containers \ {c}) \cup {h}
                 /\ IF ReportsHealthy(h)
                    THEN EnsureOk(p, [loc[p] EXCEPT !.polls = 0])
                    ELSE IF WaitExhausted(loc[p].polls)
                    THEN FinishWith(p, "Other", "e_wait", [loc[p] EXCEPT !.polls = @ + 1])
                    ELSE /\ loc' = [loc EXCEPT ![p].polls = @ + 1]
                         /\ UNCHANGED <<pc, res>>
    /\ UNCHANGED <<disk, network, databases, routingFile, cfg, hub, listing, san, call, ops, prev, timedOut, okAll,
                   active, budget, lock, tasks>>

\* a caller invokes ensure_shared_service_running
EnsureCall(p) ==
    /\ CanCall(p)
    /\ \E key \in EnsureKeys :
          Issue(p, [NoCall EXCEPT !.op = "ensure", !.key = key])
    /\ Enter(p, "e_list")
    /\ loc' = [loc EXCEPT ![p] = [NoLoc EXCEPT !.ret = "done"]]
    /\ UNCHANGED <<world, cfg, hub, listing, san, active, budget, lock, tasks>>

(***************************************************************************)
(* PostgreSQL provisioning (src/src/services/postgres.rs)                  *)
(***************************************************************************)
\* outcomes of create_postgres_database(db_name) for a caller with locals l:
\* the set of <<result, databases', locals'>>
create_postgres_database(db_name, l) ==
    LET conn == [l EXCEPT !.nConnect = @ + 1]
    IN  \* tokio_postgres::connect fails
        { <<"Database", databases, conn>> }
        \cup
        \* connected: existence query, then validation, then CREATE DATABASE
        ( IF ~EngineUp THEN {}
          ELSE IF db_name \in databases
               THEN { <<"Ok", databases, conn>> }
               ELSE IF ~ValidDbName(db_name)
                    THEN { <<"Config", databases, conn>> }
                    ELSE { <<"Ok", databases \cup {db_name}, [conn EXCEPT !.nStmt = @ + 1]>>,
                           <<"Database", databases, [conn EXCEPT !.nStmt = @ + 1]>> } )

\* outcomes of drop_postgres_database(db_name)
drop_postgres_database(db_name, l) ==
    LET conn == [l EXCEPT !.nConnect = @ + 1]
    IN  { <<"Database", databases, conn>> }
        \cup
        \* connected: validation, terminate (result ignored), DROP IF EXISTS
        ( IF ~EngineUp THEN {}
          ELSE IF ~ValidDbName(db_name)
               THEN { <<"Config", databases, conn>> }
               ELSE { <<"Ok", databases \ {db_name}, [conn EXCEPT !.nStmt = @ + 2]>>,
                      <<"Database", databases, [conn EXCEPT !.nStmt = @ + 2]>> } )

(***************************************************************************)
(* Routing (src/src/nginx/config.rs, reload.rs)                            *)
(***************************************************************************)
\* NGINX_DYNAMIC_TEMPLATE (lines 12-92) rendered: the context has no scratch
\* list, the blocks capture the scratch name from the request
RenderDynamic ==
    [written |-> TRUE, mode |-> "dynamic", upstreams |-> <<>>, routes |-> <<>>]

\* variant: the loop over the server or location blocks is left out
RenderStaticUpstreamsOnly(scratches) ==
    [written |-> TRUE, mode |-> "static", upstreams |-> scratches, routes |-> <<>>]

\* NGINX_STATIC_TEMPLATE (lines 98-154) rendered over the names of the
\* scratch list: one upstream block per entry, then one server block
\* (subdomain routing) or one location block (path routing) per entry
RenderStatic(scratches) ==
    [written |-> TRUE, mode |-> "static", upstreams |-> scratches, routes |-> scratches]

\* regenerate_config, called with routing enabled
Regenerate(p) ==
    /\ pc[p] = "regen"
    /\ IF ~cfg.enabled
       THEN Goto(p, "reload") /\ UNCHANGED <<loc, routingFile>>
       ELSE IF cfg.ingress_service = ""
       THEN Finish(p, "Config", "regen") /\ UNCHANGED routingFile
       ELSE \/ /\ ~cfg.dynamic
               /\ Finish(p, "Docker", "regen") /\ UNCHANGED routingFile
            \/ /\ routingFile' =
                    IF cfg.dynamic
                    THEN RenderDynamic
                    ELSE RenderStatic(ListNames)
               /\ Goto(p, "reload") /\ UNCHANGED loc
    /\ UNCHANGED <<disk, runtime, cfg, hub, listing, san, call, ops, prev, timedOut, okAll, active, budget, lock, tasks>>

\* reload
Reload(p) ==
    /\ pc[p] = "reload"
    /\ \/ Finish(p, "Other", "reload")
       \/ Finish(p, "Ok", "")
    /\ UNCHANGED <<world, cfg, hub, listing, san, call, ops, prev, timedOut, okAll, active, budget, lock, tasks>>

(***************************************************************************)
(* create_scratch (src/src/scratch/lifecycle.rs 16-138)                    *)
(***************************************************************************)
\* variant: the check looks for the metadata record instead of the directory
ScratchDirExistsByMetadata(n) == n \in DOMAIN metaFile

\* variant: the existence check is dropped
ScratchDirExistsAlways(n) == TRUE

\* scratch_dir.exists()
ScratchDirExists(n) == n \in dirs

\* lines 24-69: resolve the name, validate it, check for the directory
CreateCall(p) ==
    /\ CanCall(p)
    /\ \E in \in CreateInputsOf(active), profile \in Profiles :
          LET branch == in.branch
              name == in.name
              scratch_name == IF name.some THEN name.val ELSE sanitize_name(branch)
          IN  /\ Issue(p, [op |-> "create", name |-> scratch_name, key |-> "",
                           services |-> ProfileServices(profile), branch |-> branch,
                           force |-> FALSE])
              /\ loc' = [loc EXCEPT ![p] = NoLoc]
              /\ IF scratch_name = <<>>
                 THEN /\ pc' = [pc EXCEPT ![p] = "done"]
                      /\ res' = [res EXCEPT ![p] = "InvalidScratchName"]
                 ELSE IF ScratchDirExists(scratch_name)
                 THEN /\ pc' = [pc EXCEPT ![p] = "done"]
                      /\ res' = [res EXCEPT ![p] = "ScratchAlreadyExists"]
                 ELSE Enter(p, "c_mkdir")
    /\ UNCHANGED <<world, cfg, hub, listing, san, active, budget, lock, tasks>>

\* variant: the directories are not created at this point
CreateDirsDeferred(p) ==
    /\ pc[p] = "c_mkdir"
    /\ Goto(p, "c_network")
    /\ UNCHANGED <<world, cfg, hub, listing, san, call, loc, ops, prev, timedOut, okAll, active, budget, lock, tasks>>

\* variant: fs::create_dir, which fails on a directory that exists
create_scratch_directories_exclusive(n) == IF n \in dirs THEN "Io" ELSE "Ok"

\* lines 141-146: fs::create_dir_all returns Ok whether or not the directory
\* exists already
create_scratch_directories(n) == "Ok"

\* line 73: create_scratch_directories(&scratch_dir)?
CreateDirs(p) ==
    /\ pc[p] = "c_mkdir"
    /\ IF create_scratch_directories(call[p].name) = "Ok"
       THEN /\ dirs' = dirs \cup {call[p].name}
            /\ Goto(p, "c_network") /\ UNCHANGED loc
       ELSE /\ Finish(p, create_scratch_directories(call[p].name), "c_mkdir")
            /\ UNCHANGED dirs
    /\ UNCHANGED <<composeFile, metaFile, runtime, routingFile, cfg, hub, listing, san, call, ops, prev, timedOut,
                   okAll, active, budget, lock, tasks>>

\* line 77: docker.ensure_network(); lines 81-88 choose what follows
CreateNetwork(p) ==
    /\ pc[p] = "c_network"
    /\ \/ /\ ~network
          /\ Finish(p, "Docker", "c_network")
          /\ UNCHANGED <<network, call>>
       \/ /\ network' = TRUE
          /\ IF NeedsDatabase(call[p].services)
             THEN /\ call' = [call EXCEPT ![p].key = "postgres"]
                  /\ loc' = [loc EXCEPT ![p].ret = "c_createdb"]
                  /\ Goto(p, "e_list")
             ELSE /\ Goto(p, "c_render")
                  /\ UNCHANGED <<call, loc>>
    /\ UNCHANGED <<disk, containers, databases, routingFile, cfg, hub, listing, san, ops, prev, timedOut, okAll, active, budget, lock, tasks>>

\* lines 86-94: create the database scratch_<name> and record it
CreateDb(p) ==
    /\ pc[p] = "c_createdb"
    /\ LET db_name == DbNameOf(call[p].name)
       IN  \E o \in create_postgres_database(db_name, loc[p]) :
              /\ databases' = o[2]
              /\ IF o[1] = "Ok"
                 THEN /\ loc' = [loc EXCEPT ![p] = [o[3] EXCEPT !.dbs = <<db_name>>]]
                      /\ Goto(p, "c_render")
                 ELSE FinishWith(p, o[1], "c_createdb", o[3])
    /\ UNCHANGED <<disk, network, containers, routingFile, cfg, hub, listing, san, call, ops, prev, timedOut, okAll, active, budget, lock, tasks>>

\* lines 101-106: render the specification and save compose.yml
CreateRender(p) ==
    /\ pc[p] = "c_render"
    /\ IF call[p].name \notin dirs
       THEN Finish(p, "Io", "c_render") /\ UNCHANGED composeFile
       ELSE /\ composeFile' = WriteFile(composeFile, call[p].name,
                                        RenderedServices(call[p].services))
            /\ Goto(p, "c_meta") /\ UNCHANGED loc
    /\ UNCHANGED <<dirs, metaFile, runtime, routingFile, cfg, hub, listing, san, call, ops, prev, timedOut, okAll, active, budget, lock, tasks>>

\* lines 108-122: write .scratchpad.toml
CreateMeta(p) ==
    /\ pc[p] = "c_meta"
    /\ IF call[p].name \notin dirs
       THEN Finish(p, "Io", "c_meta") /\ UNCHANGED metaFile
       ELSE /\ metaFile' = WriteFile(metaFile, call[p].name,
                                     [branch |-> call[p].branch,
                                      services |-> call[p].services,
                                      databases |-> loc[p].dbs])
            /\ Goto(p, "c_up") /\ UNCHANGED loc
    /\ UNCHANGED <<dirs, composeFile, runtime, routingFile, cfg, hub, listing, san, call, ops, prev, timedOut, okAll,
                   active, budget, lock, tasks>>

\* start_scratch_compose: "docker compose up -d" in the scratch directory;
\* returns the result and the containers afterwards
start_scratch_compose(n) ==
    IF n \notin dirs THEN { <<"Io", containers>> }
    ELSE { <<"Other", containers>> }
         \cup ( IF ComposeUsable(n) /\ network /\ ~ComposeConflict(n)
                THEN { <<"Ok", AfterUp(n)>> } ELSE {} )

\* stop_scratch_compose: "docker compose down" in the scratch directory
stop_scratch_compose(n) ==
    IF n \notin dirs THEN { <<"Io", containers>> }
    ELSE { <<"Other", containers>> }
         \cup ( IF ComposeUsable(n) THEN { <<"Ok", AfterDown(n)>> } ELSE {} )

\* lines 124-134: start the environment, then routing when enabled
CreateUp(p) ==
    /\ pc[p] = "c_up"
    /\ \E o \in start_scratch_compose(call[p].name) :
          /\ containers' = o[2]
          /\ LET l == [loc[p] EXCEPT !.nUp = @ + 1]
             IN  IF o[1] # "Ok" THEN FinishWith(p, o[1], "c_up", l)
                 ELSE IF cfg.enabled
                 THEN /\ pc' = [pc EXCEPT ![p] = "regen"]
                      /\ loc' = [loc EXCEPT ![p] = l]
                      /\ UNCHANGED res
                 ELSE FinishWith(p, "Ok", "", l)
    /\ UNCHANGED <<disk, network, databases, routingFile, cfg, hub, listing, san, call, ops, prev, timedOut, okAll, active, budget, lock, tasks>>

(***************************************************************************)
(* delete_scratch, start_scratch, stop_scratch (lifecycle.rs 210-297)      *)
(***************************************************************************)
\* the postgres databases recorded in the metadata of directory n; a missing
\* record yields none
RecordedDatabases(n) ==
    IF n \in DOMAIN metaFile THEN metaFile[n].databases ELSE <<>>

\* the values of the force argument: the HTTP handler passes true
\* (api/routes.rs 121), the command line passes its option
\* (cli/commands.rs 161); concurrent callers are HTTP handlers
ForceFlags == IF active = Procs THEN {TRUE} ELSE BOOLEAN

\* lines 252-264: check for the directory, load the metadata record; where
\* the call of delete_scratch(name, force) stands after them
DeleteEntry(name, force) ==
    IF ~ScratchDirExists(name)
    THEN [pc |-> "done", res |-> "ScratchNotFound", loc |-> NoLoc]
    ELSE [pc |-> IF RecordedDatabases(name) # <<>> THEN "d_drop" ELSE "d_down",
          res |-> "none",
          loc |-> [NoLoc EXCEPT !.dbs = RecordedDatabases(name)]]

\* delete_scratch(config, docker, name, force) is called
DeleteCall(p) ==
    /\ CanCall(p)
    /\ \E name \in TargetNames, force \in ForceFlags :
          /\ Issue(p, [NoCall EXCEPT !.op = "delete", !.name = name, !.force = force])
          /\ pc' = [pc EXCEPT ![p] = DeleteEntry(name, force).pc]
          /\ res' = [res EXCEPT ![p] = DeleteEntry(name, force).res]
          /\ loc' = [loc EXCEPT ![p] = DeleteEntry(name, force).loc]
    /\ UNCHANGED <<world, cfg, hub, listing, san, active, budget, lock, tasks>>

\* variant: the Err of drop_postgres_database is propagated with ?
AfterDropFatal(r, rest) ==
    IF r # "Ok" THEN "done" ELSE IF rest # <<>> THEN "d_drop" ELSE "d_down"

\* lines 270-272: the Err of drop_postgres_database is logged, the loop goes
\* on with the databases left, then line 281 follows
AfterDrop(r, rest) == IF rest # <<>> THEN "d_drop" ELSE "d_down"

\* lines 266-275 within delete_scratch(name, force): drop one recorded
\* database; a failure is only logged
DeleteDropWith(p, force) ==
    /\ pc[p] = "d_drop"
    /\ LET db == Head(loc[p].dbs)
           rest == Tail(loc[p].dbs)
       IN  \E o \in drop_postgres_database(db, loc[p]) :
              /\ databases' = o[2]
              /\ loc' = [loc EXCEPT ![p] = [o[3] EXCEPT !.dbs = rest,
                                                        !.nDrop = @ + 1,
                                                        !.dropFailed = @ \/ o[1] # "Ok"]]
              /\ Goto(p, AfterDrop(o[1], rest))
    /\ UNCHANGED <<disk, network, containers, routingFile, cfg, hub, listing, san, call, ops, prev, timedOut, okAll, active, budget, lock, tasks>>

DeleteDrop(p) == DeleteDropWith(p, call[p].force)

\* variant: with force a failure to stop the containers does not end the call
DeleteAbortsUnlessForced(r, force) == r # "Ok" /\ ~force

\* line 281: `stop_scratch_compose(&scratch_dir).await?` returns the Err,
\* whatever the value of force
DeleteAborts(r, force) == r # "Ok"

\* line 281 within delete_scratch(name, force)
DeleteDownWith(p, force) ==
    /\ pc[p] = "d_down"
    /\ \E o \in stop_scratch_compose(call[p].name) :
          /\ containers' = o[2]
          /\ LET l == [loc[p] EXCEPT !.nDown = @ + 1]
             IN  IF DeleteAborts(o[1], force) THEN FinishWith(p, o[1], "d_down", l)
                 ELSE /\ pc' = [pc EXCEPT ![p] = "d_rmdir"]
                      /\ loc' = [loc EXCEPT ![p] = l]
                      /\ UNCHANGED res
    /\ UNCHANGED <<disk, network, databases, routingFile, cfg, hub, listing, san, call, ops, prev, timedOut, okAll, active, budget, lock, tasks>>

DeleteDown(p) == DeleteDownWith(p, call[p].force)

\* variant: the directory itself is left in place
remove_dir_all_kept(n) == dirs

\* line 285: the directories left by fs::remove_dir_all(&scratch_dir)
remove_dir_all(n) == dirs \ {n}

\* lines 285-293 within delete_scratch(name, force): fs::remove_dir_all, then
\* routing when enabled
DeleteRemoveWith(p, force) ==
    /\ pc[p] = "d_rmdir"
    /\ LET n == call[p].name
       IN  IF n \notin dirs
           THEN Finish(p, "Io", "d_rmdir") /\ UNCHANGED disk
           ELSE /\ dirs' = remove_dir_all(n)
                /\ composeFile' = RemoveFile(composeFile, n)
                /\ metaFile' = RemoveFile(metaFile, n)
                /\ IF cfg.enabled
                   THEN Goto(p, "regen") /\ UNCHANGED loc
                   ELSE Finish(p, "Ok", "")
    /\ UNCHANGED <<runtime, routingFile, cfg, hub, listing, san, call, ops, prev, timedOut, okAll, active, budget, lock, tasks>>

DeleteRemove(p) == DeleteRemoveWith(p, call[p].force)

\* start_scratch, lines 212-216
StartCall(p) ==
    /\ CanCall(p)
    /\ \E name \in TargetNames :
          /\ Issue(p, [NoCall EXCEPT !.op = "start", !.name = name])
          /\ IF ~ScratchDirExists(name)
             THEN /\ pc' = [pc EXCEPT ![p] = "done"]
                  /\ res' = [res EXCEPT ![p] = "ScratchNotFound"]
             ELSE Enter(p, "s_up")
    /\ loc' = [loc EXCEPT ![p] = NoLoc]
    /\ UNCHANGED <<world, cfg, hub, listing, san, active, budget, lock, tasks>>

\* start_scratch, line 219
StartUp(p) ==
    /\ pc[p] = "s_up"
    /\ \E o \in start_scratch_compose(call[p].name) :
          /\ containers' = o[2]
          /\ FinishWith(p, o[1], IF o[1] = "Ok" THEN "" ELSE "s_up",
                        [loc[p] EXCEPT !.nUp = @ + 1])
    /\ UNCHANGED <<disk, network, databases, routingFile, cfg, hub, listing, san, call, ops, prev, timedOut, okAll, active, budget, lock, tasks>>

\* stop_scratch, lines 226-230
StopCall(p) ==
    /\ CanCall(p)
    /\ \E name \in TargetNames :
          /\ Issue(p, [NoCall EXCEPT !.op = "stop", !.name = name])
          /\ IF ~ScratchDirExists(name)
             THEN /\ pc' = [pc EXCEPT ![p] = "done"]
                  /\ res' = [res EXCEPT ![p] = "ScratchNotFound"]
             ELSE Enter(p, "t_down")
    /\ loc' = [loc EXCEPT ![p] = NoLoc]
    /\ UNCHANGED <<world, cfg, hub, listing, san, active, budget, lock, tasks>>

\* variant: restart_scratch goes on to start_scratch whatever stop returned
RestartContinuesAlways(r, op) == op = "restart"

\* restart_scratch, line 240: `stop_scratch(..).await?` returns the Err of
\* stop; start_scratch follows only after Ok
RestartContinues(r, op) == r = "Ok" /\ op = "restart"

\* stop_scratch, line 233; within restart_scratch (lines 239-243) start_scratch
\* follows, beginning with its check of the directory (lines 212-216)
StopDown(p) ==
    /\ pc[p] = "t_down"
    /\ \E o \in stop_scratch_compose(call[p].name) :
          /\ containers' = o[2]
          /\ LET l == [loc[p] EXCEPT !.nDown = @ + 1]
             IN  IF RestartContinues(o[1], call[p].op)
                 THEN IF ~ScratchDirExists(call[p].name)
                      THEN FinishWith(p, "ScratchNotFound", "s_up", l)
                      ELSE /\ pc' = [pc EXCEPT ![p] = "s_up"]
                           /\ loc' = [loc EXCEPT ![p] = l]
                           /\ UNCHANGED res
                 ELSE FinishWith(p, o[1], IF o[1] = "Ok" THEN "" ELSE "t_down", l)
    /\ UNCHANGED <<disk, network, databases, routingFile, cfg, hub, listing, san, call, ops, prev, timedOut, okAll, active, budget, lock, tasks>>

\* restart_scratch, line 240: stop_scratch with its check of the directory
RestartCall(p) ==
    /\ CanCall(p)
    /\ \E name \in TargetNames :
          /\ Issue(p, [NoCall EXCEPT !.op = "restart", !.name = name])
          /\ IF ~ScratchDirExists(name)
             THEN /\ pc' = [pc EXCEPT ![p] = "done"]
                  /\ res' = [res EXCEPT ![p] = "ScratchNotFound"]
             ELSE Enter(p, "t_down")
    /\ loc' = [loc EXCEPT ![p] = NoLoc]
    /\ UNCHANGED <<world, cfg, hub, listing, san, active, budget, lock, tasks>>

(***************************************************************************)
(* start_shared_services, stop_shared_services (shared.rs 141-165)         *)
(***************************************************************************)
StartAllCall(p) ==
    /\ CanCall(p)
    /\ Issue(p, [NoCall EXCEPT !.op = "startAll"])
    /\ loc' = [loc EXCEPT ![p] = NoLoc]
    /\ Enter(p, "sa_network")
    /\ UNCHANGED <<world, cfg, hub, listing, san, active, budget, lock, tasks>>

\* line 156: docker.ensure_network()
StartAllNetwork(p) ==
    /\ pc[p] = "sa_network"
    /\ \/ /\ ~network
          /\ Finish(p, "Docker", "sa_network")
          /\ UNCHANGED network
       \/ /\ network' = TRUE
          /\ loc' = [loc EXCEPT ![p].todo = { k \in CatalogueKeys : Catalogue(k).shared }]
          /\ Goto(p, "sa_next")
    /\ UNCHANGED <<disk, containers, databases, routingFile, cfg, hub, listing, san, call, ops, prev, timedOut, okAll,
                   active, budget, lock, tasks>>

\* lines 158-162: the next shared catalogue entry, in the map's order
StartAllNext(p) ==
    /\ pc[p] = "sa_next"
    /\ IF loc[p].todo = {}
       THEN Finish(p, "Ok", "") /\ UNCHANGED call
       ELSE \E k \in loc[p].todo :
               /\ call' = [call EXCEPT ![p].key = k]
               /\ loc' = [loc EXCEPT ![p].todo = @ \ {k}, ![p].ret = "sa_next"]
               /\ Goto(p, "e_list")
    /\ UNCHANGED <<world, cfg, hub, listing, san, ops, prev, timedOut, okAll, active, budget, lock, tasks>>

StopAllCall(p) ==
    /\ CanCall(p)
    /\ Issue(p, [NoCall EXCEPT !.op = "stopAll"])
    /\ loc' = [loc EXCEPT ![p] = NoLoc]
    /\ Enter(p, "so_list")
    /\ UNCHANGED <<world, cfg, hub, listing, san, active, budget, lock, tasks>>

\* line 143: list the shared-service containers
StopAllList(p) ==
    /\ pc[p] = "so_list"
    /\ \/ Finish(p, "Docker", "so_list")
       \/ /\ loc' = [loc EXCEPT ![p].todo = { c.shared.val : c \in list_shared_service_containers }]
          /\ Goto(p, "so_stop")
    /\ UNCHANGED <<world, cfg, hub, listing, san, call, ops, prev, timedOut, okAll, active, budget, lock, tasks>>

\* lines 145-148: stop the next listed container
StopAllStep(p) ==
    /\ pc[p] = "so_stop"
    /\ IF loc[p].todo = {}
       THEN Finish(p, "Ok", "") /\ UNCHANGED containers
       ELSE \E k \in loc[p].todo :
               \/ Finish(p, "Docker", "so_stop") /\ UNCHANGED containers
               \/ /\ containers' = { IF c.shared = Some(k) THEN StoppedContainer(c)
                                     ELSE c : c \in containers }
                  /\ loc' = [loc EXCEPT ![p].todo = @ \ {k}]
                  /\ UNCHANGED <<pc, res>>
    /\ UNCHANGED <<disk, network, databases, routingFile, cfg, hub, listing, san, call, ops, prev, timedOut, okAll, active, budget, lock, tasks>>

(***************************************************************************)
(* create_postgres_database and drop_postgres_database called on their own *)
(* (src/src/services/postgres.rs), with names the lifecycle never derives  *)
(***************************************************************************)
\* the shared database container as ensure_shared_service_running leaves it
PostgresContainer ==
    Container(SharedContainerName("postgres"), "running", "healthy", None, NoKey, Some("postgres"))

\* the database engine is provisioned or not; no database exists yet
InitDb ==
    /\ cfg \in { c \in RoutingConfigs : ~c.enabled }
    /\ dirs = {}
    /\ composeFile = << >>
    /\ metaFile = << >>
    /\ network \in BOOLEAN
    /\ containers = IF network THEN {PostgresContainer} ELSE {}
    /\ databases = {}
    /\ routingFile = NoRouting
    /\ IdleCallers({"p1"}, MaxDbOps)
    /\ IdleHub

\* create_postgres_database(config, db_name)
CreateDatabaseCall(p) ==
    /\ CanCall(p)
    /\ \E db_name \in DbNames : \E o \in create_postgres_database(db_name, NoLoc) :
          /\ Issue(p, [NoCall EXCEPT !.op = "createdb", !.name = db_name])
          /\ databases' = o[2]
          /\ pc' = [pc EXCEPT ![p] = "done"]
          /\ res' = [res EXCEPT ![p] = o[1]]
          /\ loc' = [loc EXCEPT ![p] = o[3]]
    /\ UNCHANGED <<disk, network, containers, routingFile, cfg, hub, listing, san, active, budget, lock, tasks>>

\* drop_postgres_database(config, db_name)
DropDatabaseCall(p) ==
    /\ CanCall(p)
    /\ \E db_name \in DbNames : \E o \in drop_postgres_database(db_name, NoLoc) :
          /\ Issue(p, [NoCall EXCEPT !.op = "dropdb", !.name = db_name])
          /\ databases' = o[2]
          /\ pc' = [pc EXCEPT ![p] = "done"]
          /\ res' = [res EXCEPT ![p] = o[1]]
          /\ loc' = [loc EXCEPT ![p] = o[3]]
    /\ UNCHANGED <<disk, network, containers, routingFile, cfg, hub, listing, san, active, budget, lock, tasks>>

NextDb ==
    \/ \E p \in Procs : CreateDatabaseCall(p)
    \/ \E p \in Procs : DropDatabaseCall(p)

(***************************************************************************)
(* The push channel: WsBroadcastHub, handle_socket                         *)
(* (src/src/api/websocket.rs) and the poller (src/src/api/events.rs)       *)
(***************************************************************************)
\* status_channel: format!("status:{}", scratch)
status_channel(scratch) == <<"s", "t", "a", "t", "u", "s", ":">> \o scratch

\* channels the observers name in their frames
HubChannels == { status_channel(<<"a">>), status_channel(<<"a", "-", "w", "e", "b">>) }

\* subs.get(channel), empty when the channel has no entry
Registered(subs, channel) == IF channel \in DOMAIN subs THEN subs[channel] ELSE <<>>

\* WsBroadcastHub::subscribe: push the sender on the channel's list
subscribe(subs, channel, tx) ==
    [c \in DOMAIN subs \cup {channel} |->
        IF c = channel THEN Append(Registered(subs, channel), tx) ELSE subs[c]]

\* retain(|sender| !sender.is_closed()): a sender is closed once its receiver
\* is dropped
RetainOpen(senders) == SelectSeq(senders, LAMBDA tx : sinks[tx].open)

\* subs.retain(|_, v| !v.is_empty())
RemoveEmpty(subs) == [c \in { x \in DOMAIN subs : subs[x] # <<>> } |-> subs[c]]

\* WsBroadcastHub::unsubscribe: the _tx argument is not used
unsubscribe(subs, channel) ==
    RemoveEmpty([c \in DOMAIN subs |-> IF c = channel THEN RetainOpen(subs[c]) ELSE subs[c]])

\* variant: cleanup leaves the emptied channels in the map
cleanupKeepingChannels(subs) == [c \in DOMAIN subs |-> RetainOpen(subs[c])]

\* WsBroadcastHub::cleanup
cleanup(subs) == RemoveEmpty([c \in DOMAIN subs |-> RetainOpen(subs[c])])

\* WsBroadcastHub::get_channels
get_channels == DOMAIN subscribers

\* tx.send(msg).await with the result dropped: buffered when the receiver is
\* alive, an error otherwise (the buffer of 100 is never full here)
Send(sk, tx, msg) ==
    IF sk[tx].open THEN [sk EXCEPT ![tx].queue = Append(@, msg)] ELSE sk

\* for tx in subscribers { let _ = tx.send(msg.clone()).await; }
RECURSIVE SendAll(_, _, _)
SendAll(sk, senders, msg) ==
    IF senders = <<>> THEN sk
    ELSE SendAll(Send(sk, Head(senders), msg), Tail(senders), msg)

\* WsBroadcastHub::broadcast
broadcast(sk, channel, msg) == SendAll(sk, Registered(subscribers, channel), msg)

\* position of the last '-' of s, 0 when there is none: str::rfind('-')
RfindDash(s) ==
    IF \E i \in 1..Len(s) : s[i] = "-"
    THEN CHOOSE i \in 1..Len(s) : s[i] = "-" /\ \A j \in (i + 1)..Len(s) : s[j] # "-"
    ELSE 0

ScratchpadPrefix == <<"s", "c", "r", "a", "t", "c", "h", "p", "a", "d", "-">>

\* str::strip_prefix("scratchpad-")
StripPrefix(s) ==
    IF Len(s) >= Len(ScratchpadPrefix) /\ SubSeq(s, 1, Len(ScratchpadPrefix)) = ScratchpadPrefix
    THEN Some(SubSeq(s, Len(ScratchpadPrefix) + 1, Len(s)))
    ELSE None

\* extract_scratch_name
extract_scratch_name(container_name) ==
    LET rest == StripPrefix(container_name)
    IN  IF rest.some
        THEN IF RfindDash(rest.val) > 0
             THEN Some(SubSeq(rest.val, 1, RfindDash(rest.val) - 1))
             ELSE Some(rest.val)
        ELSE IF container_name # <<>> THEN Some(container_name) ELSE None

\* extract_service_name
extract_service_name(container_name) ==
    LET rest == StripPrefix(container_name)
    IN  IF rest.some /\ RfindDash(rest.val) > 0
        THEN SubSeq(rest.val, RfindDash(rest.val) + 1, Len(rest.val))
        ELSE container_name

\* stream_docker_events, lines 66-78: the message for one listed container
\* and the channel it is broadcast on
PollMessage(c, n) ==
    ServerMessage("StatusChange", extract_scratch_name(c.name).val,
                  extract_service_name(c.name), c.state, n)

PollChannel(c) == status_channel(extract_scratch_name(c.name).val)

\* the hub or a handler performs its next operation
HubOp(op, channel, by, msg) ==
    /\ hubLast.n < MaxHubOps
    /\ hubLast' = [n |-> hubLast.n + 1, op |-> op, channel |-> channel, by |-> by,
                   msg |-> msg, channels |-> get_channels]

\* a scratch "a" with the default services was created: the containers the
\* poller finds
InitHub ==
    /\ cfg \in { c \in RoutingConfigs : ~c.enabled }
    /\ dirs = { <<"a">> }
    /\ composeFile = WriteFile(<< >>, <<"a">>, RenderedServices(DefaultServices))
    /\ metaFile = WriteFile(<< >>, <<"a">>, [branch |-> <<"a">>, services |-> DefaultServices,
                                            databases |-> <<>>])
    /\ network = TRUE
    /\ containers = ComposeContainers(<<"a">>)
    /\ databases = {}
    /\ routingFile = NoRouting
    /\ IdleCallers({}, 0)
    /\ IdleHub

\* ws_handler / handle_socket, lines 160-187: the connection's mpsc channel
\* and its sender_task
Connect(o) ==
    /\ conns[o].pc = "none"
    /\ conns' = [conns EXCEPT ![o] = [NoConn EXCEPT !.pc = "reading", !.sender_task = "running"]]
    /\ sinks' = [sinks EXCEPT ![o] = [open |-> TRUE, queue |-> <<>>]]
    /\ UNCHANGED <<cfg, world, callState, subscribers, hubLast, listing, san, lock, tasks>>

\* lines 193-203: a Subscribe frame (one channel)
OnSubscribe(o) ==
    /\ conns[o].pc = "reading"
    /\ \E channel \in HubChannels :
          LET msg == ServerMessage("Subscribed", <<>>, <<>>, channel, hubLast.n + 1)
          IN  /\ subscribers' = subscribe(subscribers, channel, o)
              /\ conns' = [conns EXCEPT ![o].subscribed_channels = Append(@, channel)]
              /\ sinks' = Send(sinks, o, msg)
              /\ HubOp("subscribe", channel, o, msg)
    /\ UNCHANGED <<cfg, world, callState, listing, san, lock, tasks>>

\* lines 204-214: an Unsubscribe frame (one channel)
OnUnsubscribe(o) ==
    /\ conns[o].pc = "reading"
    /\ \E channel \in HubChannels :
          LET msg == ServerMessage("Unsubscribed", <<>>, <<>>, channel, hubLast.n + 1)
          IN  /\ subscribers' = unsubscribe(subscribers, channel)
              /\ conns' = [conns EXCEPT ![o].subscribed_channels =
                                          SelectSeq(@, LAMBDA c : c # channel)]
              /\ sinks' = Send(sinks, o, msg)
              /\ HubOp("unsubscribe", channel, o, msg)
    /\ UNCHANGED <<cfg, world, callState, listing, san, lock, tasks>>

\* lines 215-217: a Ping frame
OnPing(o) ==
    /\ conns[o].pc = "reading"
    /\ LET msg == ServerMessage("Pong", <<>>, <<>>, <<>>, hubLast.n + 1)
       IN  /\ sinks' = Send(sinks, o, msg)
           /\ HubOp("ping", <<>>, o, msg)
    /\ UNCHANGED <<cfg, world, callState, subscribers, conns, listing, san, lock, tasks>>

\* lines 190 and 226: a close frame, a read error or the end of the stream
\* ends the read loop
OnEnd(o) ==
    /\ conns[o].pc = "reading"
    /\ conns' = [conns EXCEPT ![o].pc = "cleanup", ![o].todo = conns[o].subscribed_channels]
    /\ UNCHANGED <<cfg, world, callState, subscribers, sinks, hubLast, listing, san, lock, tasks>>

\* lines 232-234: hub.unsubscribe for the next of subscribed_channels
CleanupStep(o) ==
    /\ conns[o].pc = "cleanup"
    /\ conns[o].todo # <<>>
    /\ subscribers' = unsubscribe(subscribers, Head(conns[o].todo))
    /\ conns' = [conns EXCEPT ![o].todo = Tail(@)]
    /\ UNCHANGED <<cfg, world, callState, sinks, hubLast, listing, san, lock, tasks>>

\* line 237: sender_task.abort(), and handle_socket returns
AbortSenderTask(o) ==
    /\ conns[o].pc = "cleanup"
    /\ conns[o].todo = <<>>
    /\ conns' = [conns EXCEPT ![o].pc = "finished",
                              ![o].sender_task = IF @ = "running" THEN "aborted" ELSE @]
    /\ UNCHANGED <<cfg, world, callState, subscribers, sinks, hubLast, listing, san, lock, tasks>>

\* lines 178-185: the sender_task takes a message and writes it to the
\* socket; when the write fails it ends, dropping the receiver
PumpForward(o) ==
    /\ conns[o].sender_task = "running"
    /\ sinks[o].queue # <<>>
    /\ \/ /\ sinks' = [sinks EXCEPT ![o].queue = Tail(@)]
          /\ UNCHANGED conns
       \/ /\ sinks' = [sinks EXCEPT ![o] = NoSink]
          /\ conns' = [conns EXCEPT ![o].sender_task = "ended"]
    /\ UNCHANGED <<cfg, world, callState, subscribers, hubLast, listing, san, lock, tasks>>

\* the abort takes effect: the task is dropped at its await point, and the
\* receiver with it
PumpCancelled(o) ==
    /\ conns[o].sender_task = "aborted"
    /\ sinks' = [sinks EXCEPT ![o] = NoSink]
    /\ conns' = [conns EXCEPT ![o].sender_task = "ended"]
    /\ UNCHANGED <<cfg, world, callState, subscribers, hubLast, listing, san, lock, tasks>>

\* hub.broadcast(channel, msg) by a caller of the hub
HubBroadcast ==
    /\ \E channel \in HubChannels :
          LET msg == ServerMessage("Log", <<>>, <<>>, <<>>, hubLast.n + 1)
          IN  /\ sinks' = broadcast(sinks, channel, msg)
              /\ HubOp("broadcast", channel, "", msg)
    /\ UNCHANGED <<cfg, world, callState, subscribers, conns, listing, san, lock, tasks>>

\* stream_docker_events, lines 47-81: one container of a poll cycle
Poll ==
    /\ \E c \in containers :
          /\ extract_scratch_name(c.name).some
          /\ LET msg == PollMessage(c, hubLast.n + 1)
             IN  /\ sinks' = broadcast(sinks, PollChannel(c), msg)
                 /\ HubOp("poll", PollChannel(c), "", msg)
    /\ UNCHANGED <<cfg, world, callState, subscribers, conns, listing, san, lock, tasks>>

\* hub.cleanup()
HubCleanup ==
    /\ subscribers' = cleanup(subscribers)
    /\ HubOp("cleanup", <<>>, "", NoMessage)
    /\ UNCHANGED <<cfg, world, callState, sinks, conns, listing, san, lock, tasks>>

NextHub ==
    \/ \E o \in Observers : Connect(o)
    \/ \E o \in Observers : OnSubscribe(o)
    \/ \E o \in Observers : OnUnsubscribe(o)
    \/ \E o \in Observers : OnPing(o)
    \/ \E o \in Observers : OnEnd(o)
    \/ \E o \in Observers : CleanupStep(o)
    \/ \E o \in Observers : AbortSenderTask(o)
    \/ \E o \in Observers : PumpForward(o)
    \/ \E o \in Observers : PumpCancelled(o)
    \/ HubBroadcast
    \/ Poll
    \/ HubCleanup

(***************************************************************************)
(* list_scratches, get_scratch_status (lifecycle.rs 300-390) and           *)
(* ScratchStatus::calculate_status (status.rs 33-49)                       *)
(***************************************************************************)
\* variant: one running service is enough for "running"
calculate_status_any(services) ==
    IF DOMAIN services = {} THEN "stopped"
    ELSE IF \E k \in DOMAIN services : services[k] = "running" THEN "running"
    ELSE "stopped"

\* ScratchStatus::calculate_status over the services map
calculate_status(services) ==
    IF DOMAIN services = {} THEN "stopped"
    ELSE LET all_running == \A k \in DOMAIN services : services[k] = "running"
             any_running == \E k \in DOMAIN services : services[k] = "running"
         IN  IF all_running THEN "running"
             ELSE IF any_running THEN "partial"
             ELSE "stopped"

\* lines 341-357: the services map of directory name, from the containers
\* whose scratch label is name and that carry a service label
ServicesOf(name, listed) ==
    LET mine == { c \in listed : c.scratch = Some(name) /\ c.service.some }
    IN  [k \in { c.service.val : c \in mine } |->
            (CHOOSE c \in mine : c.service.val = k).state]

\* a metadata file whose content is not a ScratchConfig document
Unparsable == [unparsable |-> TRUE]

\* toml::from_str::<ScratchConfig>(&content) returns Ok
Parses(content) == "branch" \in DOMAIN content

\* lines 325-327: the metadata file exists, is read and parses
MetadataLoads(name) == name \in DOMAIN metaFile /\ Parses(metaFile[name])

\* lines 322-360: the entry of directory name
ScratchStatus(name, listed) ==
    [name |-> name,
     branch |-> IF MetadataLoads(name) THEN metaFile[name].branch ELSE name,
     databases |-> IF MetadataLoads(name) THEN metaFile[name].databases ELSE <<>>,
     services |-> ServicesOf(name, listed),
     status |-> calculate_status(ServicesOf(name, listed))]

\* variant: a directory whose metadata does not load is left out
list_scratches_loaded ==
    LET names == SelectSeq(ListNames, MetadataLoads)
    IN  [i \in 1..Len(names) |-> ScratchStatus(names[i], list_scratch_containers)]

\* list_scratches: one entry per directory, sorted by name
list_scratches ==
    [i \in 1..Len(ListNames) |-> ScratchStatus(ListNames[i], list_scratch_containers)]

\* names asked of get_scratch_status
GetNames == TargetNames \cup { <<"b">> }

\* two scratches were created, "a" with the profile "full" and "a-b" with
\* the default services; each is up, or stopped again; the metadata record of
\* "a-b" is as written, or was lost, or no longer parses
InitList ==
    /\ cfg \in { c \in RoutingConfigs : ~c.enabled }
    /\ dirs = TargetNames
    /\ composeFile = [n \in TargetNames |->
                        IF n = <<"a">> THEN RenderedServices(ProfileServices(Some("full")))
                        ELSE RenderedServices(DefaultServices)]
    /\ \E record \in {"written", "missing", "unparsable"} :
          metaFile = [n \in (IF record = "missing" THEN { <<"a">> } ELSE TargetNames) |->
                        IF n = <<"a">>
                        THEN [branch |-> <<"a">>, services |-> ProfileServices(Some("full")),
                              databases |-> <<DbNameOf(n)>>]
                        ELSE IF record = "unparsable" THEN Unparsable
                        ELSE [branch |-> <<"a", "/", "b">>, services |-> DefaultServices,
                              databases |-> <<>>]]
    /\ network = TRUE
    /\ \E up \in SUBSET TargetNames :
          containers = {PostgresContainer} \cup UNION { ComposeContainers(n) : n \in up }
    /\ databases = { DbNameOf(<<"a">>) }
    /\ routingFile = NoRouting
    /\ IdleCallers({}, 0)
    /\ IdleHub

\* the process of a scratch container exits; the runtime reports it exited
ContainerExits ==
    /\ \E c \in list_scratch_containers :
          /\ c.state = "running"
          /\ containers' = (containers \ {c}) \cup { [c EXCEPT !.state = "exited"] }
    /\ UNCHANGED <<cfg, disk, network, databases, routingFile, callState, hub, listing, san, lock, tasks>>

\* list_scratches(config, docker)
ListScratches ==
    /\ \/ listing' = [op |-> "list", name |-> <<>>, res |-> "Docker", entries |-> <<>>]
       \/ listing' = [op |-> "list", name |-> <<>>, res |-> "Ok", entries |-> list_scratches]
    /\ UNCHANGED <<cfg, world, callState, hub, san, lock, tasks>>

\* get_scratch_status(config, docker, name)
GetScratchStatus ==
    /\ \E name \in GetNames :
          \/ listing' = [op |-> "get", name |-> name, res |-> "Docker", entries |-> <<>>]
          \/ listing' = [op |-> "get", name |-> name,
                         res |-> IF name \in dirs THEN "Ok" ELSE "ScratchNotFound",
                         entries |-> SelectSeq(list_scratches, LAMBDA e : e.name = name)]
    /\ UNCHANGED <<cfg, world, callState, hub, san, lock, tasks>>

NextList ==
    \/ ContainerExits
    \/ ListScratches
    \/ GetScratchStatus

(***************************************************************************)
(* Scratch::sanitize_name as a function (src/src/scratch/mod.rs 40-74)     *)
(***************************************************************************)
\* the characters of the branch strings: ASCII letters of both cases, a
\* digit, the two characters the function keeps, one it replaces, and
\* letters outside ASCII of both cases
BranchChars == {"a", "A", "1", "-", "_", "/", "U+00E9", "U+00C9"}

\* the branch strings
Branches == UNION { [1..n -> BranchChars] : n \in 0..MaxLen }

\* nothing exists; a branch string is about to be sanitized
InitSan ==
    /\ cfg \in { c \in RoutingConfigs : ~c.enabled }
    /\ dirs = {}
    /\ composeFile = << >>
    /\ metaFile = << >>
    /\ network = FALSE
    /\ containers = {}
    /\ databases = {}
    /\ routingFile = NoRouting
    /\ IdleCallers({}, 0)
    /\ subscribers = << >>
    /\ sinks = [o \in Observers |-> NoSink]
    /\ conns = [o \in Observers |-> NoConn]
    /\ hubLast = NoHubOp
    /\ listing = NoListing
    /\ \E branch \in Branches : san = [NoSanitize EXCEPT !.branch = branch]
    /\ lock = NoLock
    /\ tasks = NoTasks

\* Scratch::sanitize_name(branch)
SanitizeName ==
    /\ ~san.result.some
    /\ san' = [san EXCEPT !.result = Some(sanitize_name(san.branch))]
    /\ UNCHANGED <<cfg, world, callState, hub, listing, lock, tasks>>

\* Scratch::sanitize_name applied to the string it returned
SanitizeAgain ==
    /\ san.result.some /\ ~san.again.some
    /\ san' = [san EXCEPT !.again = Some(sanitize_name(san.result.val))]
    /\ UNCHANGED <<cfg, world, callState, hub, listing, lock, tasks>>

NextSan ==
    \/ SanitizeName
    \/ SanitizeAgain

(***************************************************************************)
(* The server's tasks around the hub (src/src/api/server.rs run_server):   *)
(* the poller spawned by start_event_streaming, the handle_socket of each  *)
(* connection, and the lock and the bounded queues they meet at.           *)
(***************************************************************************)
\* self.subscribers.read().await / .write().await: the request joins the
\* queue of the lock (tokio's RwLock serves its waiters first in, first out)
Request(l, t, mode) == [l EXCEPT !.waiting = Append(@, [task |-> t, mode |-> mode])]

\* the request of t is the oldest one and can be served: read access next to
\* other readers, write access only when nobody reads
CanAcquire(t, mode) ==
    /\ lock.waiting # <<>>
    /\ Head(lock.waiting) = [task |-> t, mode |-> mode]
    /\ mode = "write" => lock.readers = {}

\* tx.send(msg).await on the bounded queue cannot proceed: the receiver is
\* alive and the queue holds its capacity
QueueFull(tx) == sinks[tx].open /\ Len(sinks[tx].queue) >= MaxQueue

\* the sequences that enumerate the set S
Enumerations(S) ==
    { f \in [1..Cardinality(S) -> S] : \A i, j \in 1..Cardinality(S) : f[i] = f[j] => i = j }

\* the channels the poller publishes on, which the observers name in their
\* frames here
PolledChannels == { PollChannel(c) : c \in containers }

\* run_server: the hub is new, no observer is connected, the poller is about
\* to list the containers of the scratch "a"
InitServer == InitHub

\* events.rs 36-43: list_containers(...).await?; an error ends
\* stream_docker_events
PollList ==
    /\ tasks["poller"].pc = "idle"
    /\ \/ \E order \in Enumerations({ c.name : c \in containers }) :
             tasks' = [tasks EXCEPT !["poller"].pc = IF order = <<>> THEN "sleep" ELSE "inspect",
                                    !["poller"].todo = order]
       \/ tasks' = [tasks EXCEPT !["poller"].pc = "ended"]
    /\ UNCHANGED <<cfg, world, callState, hub, listing, san, lock>>

\* events.rs 47-78: inspect_container(id).await? for the next listed
\* container, the StatusChange message of its status, and the call of
\* hub.broadcast, which asks for read access
PollInspect ==
    /\ tasks["poller"].pc = "inspect"
    /\ LET name == Head(tasks["poller"].todo)
           found == { c \in containers : c.name = name }
       IN  \/ \E c \in found :
                IF extract_scratch_name(c.name).some
                THEN /\ tasks' = [tasks EXCEPT
                            !["poller"].pc = "read",
                            !["poller"].op = "broadcast",
                            !["poller"].channel = PollChannel(c),
                            !["poller"].msg = PollMessage(c, 0),
                            !["poller"].seen =
                                [n \in DOMAIN @ \cup {name} |-> IF n = name THEN c.state ELSE @[n]]]
                     /\ lock' = Request(lock, "poller", "read")
                ELSE /\ tasks' = [tasks EXCEPT
                            !["poller"].pc = IF Tail(@.todo) = <<>> THEN "sleep" ELSE "inspect",
                            !["poller"].todo = Tail(@)]
                     /\ UNCHANGED lock
           \/ /\ tasks' = [tasks EXCEPT !["poller"].pc = "ended"]
              /\ UNCHANGED lock
    /\ UNCHANGED <<cfg, world, callState, hub, listing, san>>

\* events.rs 84: tokio::time::sleep(5 s), then the next cycle
PollSleep ==
    /\ tasks["poller"].pc = "sleep"
    /\ tasks' = [tasks EXCEPT !["poller"].pc = "idle"]
    /\ UNCHANGED <<cfg, world, callState, hub, listing, san, lock>>

\* another task calls hub.broadcast(channel, msg) for a channel the poller
\* does not publish on
CallerBroadcast ==
    /\ tasks["caller"].pc = "idle"
    /\ \E channel \in HubChannels \ PolledChannels :
          tasks' = [tasks EXCEPT !["caller"].pc = "read",
                                 !["caller"].op = "broadcast",
                                 !["caller"].channel = channel,
                                 !["caller"].msg = ServerMessage("Log", <<>>, <<>>, <<>>, 0)]
    /\ lock' = Request(lock, "caller", "read")
    /\ UNCHANGED <<cfg, world, callState, hub, listing, san>>

\* websocket.rs 114-115: broadcast is given read access and looks the
\* channel up
ReadGranted(t) ==
    /\ tasks[t].pc = "read"
    /\ CanAcquire(t, "read")
    /\ lock' = [readers |-> lock.readers \cup {t}, waiting |-> Tail(lock.waiting)]
    /\ tasks' = [tasks EXCEPT ![t].pc = "send",
                              ![t].targets = Registered(subscribers, tasks[t].channel)]
    /\ UNCHANGED <<cfg, world, callState, hub, listing, san>>

\* websocket.rs 116-118: let _ = tx.send(msg.clone()).await for the next
\* sender: dropped when the receiver is gone, buffered when there is room,
\* and waiting for room otherwise
SendStep(t) ==
    /\ tasks[t].pc = "send"
    /\ tasks[t].targets # <<>>
    /\ ~QueueFull(Head(tasks[t].targets))
    /\ sinks' = Send(sinks, Head(tasks[t].targets), tasks[t].msg)
    /\ tasks' = [tasks EXCEPT ![t].targets = Tail(@)]
    /\ UNCHANGED <<cfg, world, callState, subscribers, conns, hubLast, listing, san, lock>>

\* websocket.rs 120-121: broadcast returns and the read guard is dropped;
\* the poller goes on with the next container of the cycle
ReadRelease(t) ==
    /\ tasks[t].pc = "send"
    /\ tasks[t].targets = <<>>
    /\ lock' = [lock EXCEPT !.readers = @ \ {t}]
    /\ tasks' = [tasks EXCEPT
            ![t].pc = IF t # "poller" THEN "idle"
                      ELSE IF Tail(tasks[t].todo) = <<>> THEN "sleep" ELSE "inspect",
            ![t].todo = IF t = "poller" THEN Tail(@) ELSE @,
            ![t].op = "none", ![t].channel = <<>>, ![t].msg = NoMessage]
    /\ UNCHANGED <<cfg, world, callState, hub, listing, san>>

\* websocket.rs 193-214: a Subscribe or an Unsubscribe frame (one channel):
\* hub.subscribe / hub.unsubscribe asks for write access
Frame(o) ==
    /\ conns[o].pc = "reading"
    /\ tasks[o].pc = "idle"
    /\ hubLast.n < MaxFrames
    /\ hubLast' = [hubLast EXCEPT !.n = @ + 1]
    /\ \E op \in {"subscribe", "unsubscribe"}, channel \in PolledChannels :
          tasks' = [tasks EXCEPT
              ![o].pc = "write", ![o].op = op, ![o].channel = channel,
              ![o].msg = ServerMessage(IF op = "subscribe" THEN "Subscribed" ELSE "Unsubscribed",
                                       <<>>, <<>>, channel, 0)]
    /\ lock' = Request(lock, o, "write")
    /\ UNCHANGED <<cfg, world, callState, subscribers, sinks, conns, listing, san>>

\* websocket.rs 232-234: hub.unsubscribe for the next of subscribed_channels
\* asks for write access
CleanupRequest(o) ==
    /\ conns[o].pc = "cleanup"
    /\ conns[o].todo # <<>>
    /\ tasks[o].pc = "idle"
    /\ tasks' = [tasks EXCEPT ![o].pc = "write", ![o].op = "cleanup",
                              ![o].channel = Head(conns[o].todo)]
    /\ conns' = [conns EXCEPT ![o].todo = Tail(@)]
    /\ lock' = Request(lock, o, "write")
    /\ UNCHANGED <<cfg, world, callState, subscribers, sinks, hubLast, listing, san>>

\* websocket.rs 82-111: subscribe / unsubscribe is given write access,
\* changes the map and drops the guard; after a frame the handler goes on to
\* the acknowledgement
WriteGranted(o) ==
    /\ tasks[o].pc = "write"
    /\ CanAcquire(o, "write")
    /\ lock' = [lock EXCEPT !.waiting = Tail(@)]
    /\ subscribers' = IF tasks[o].op = "subscribe"
                      THEN subscribe(subscribers, tasks[o].channel, o)
                      ELSE unsubscribe(subscribers, tasks[o].channel)
    /\ conns' = [conns EXCEPT ![o].subscribed_channels =
                    IF tasks[o].op = "subscribe" THEN Append(@, tasks[o].channel)
                    ELSE IF tasks[o].op = "unsubscribe"
                         THEN SelectSeq(@, LAMBDA c : c # tasks[o].channel)
                         ELSE @]
    /\ tasks' = [tasks EXCEPT ![o] = IF tasks[o].op = "cleanup" THEN NoTask
                                     ELSE [@ EXCEPT !.pc = "ack"]]
    /\ UNCHANGED <<cfg, world, callState, sinks, hubLast, listing, san>>

\* websocket.rs 198-202, 209-213: let _ = tx.send(Subscribed / Unsubscribed)
\* .await on the connection's own queue
Acknowledge(o) ==
    /\ tasks[o].pc = "ack"
    /\ ~QueueFull(o)
    /\ sinks' = Send(sinks, o, tasks[o].msg)
    /\ tasks' = [tasks EXCEPT ![o] = NoTask]
    /\ UNCHANGED <<cfg, world, callState, subscribers, conns, hubLast, listing, san, lock>>

\* websocket.rs 190, 226: the read loop ends between two frames
EndOfStream(o) == tasks[o].pc = "idle" /\ OnEnd(o)

\* websocket.rs 237: sender_task.abort() once every unsubscribe has returned
EndOfHandler(o) == tasks[o].pc = "idle" /\ AbortSenderTask(o)

\* the runtime stops or starts a container between two cycles
RuntimeChange ==
    /\ tasks["poller"].pc = "sleep"
    /\ \E c \in containers :
          containers' = (containers \ {c}) \cup
              { IF c.state = "running" THEN StoppedContainer(c) ELSE [c EXCEPT !.state = "running"] }
    /\ UNCHANGED <<cfg, disk, network, databases, routingFile, callState, hub, listing, san,
                   lock, tasks>>

\* the steps the runtime schedules by itself: the poller, the lock, the
\* sends, a handler that left its read loop
ServerStep ==
    \/ PollList
    \/ PollInspect
    \/ PollSleep
    \/ \E t \in Tasks : ReadGranted(t)
    \/ \E t \in Tasks : SendStep(t)
    \/ \E t \in Tasks : ReadRelease(t)
    \/ \E o \in Observers : WriteGranted(o)
    \/ \E o \in Observers : Acknowledge(o)
    \/ \E o \in Observers : CleanupRequest(o)
    \/ \E o \in Observers : EndOfHandler(o)
    \/ \E o \in Observers : PumpCancelled(o)

NextServer ==
    \/ ServerStep
    \/ RuntimeChange
    \/ \E o \in Observers : Connect(o)
    \/ \E o \in Observers : Frame(o)
    \/ \E o \in Observers : EndOfStream(o)
    \/ \E o \in Observers : PumpForward(o)

\* two callers of broadcast, the poller and another task, next to handlers
\* that subscribe and unsubscribe
NextLock ==
    \/ PollList
    \/ PollInspect
    \/ PollSleep
    \/ CallerBroadcast
    \/ \E t \in Tasks : ReadGranted(t)
    \/ \E t \in Tasks : SendStep(t)
    \/ \E t \in Tasks : ReadRelease(t)
    \/ \E o \in Observers : Connect(o)
    \/ \E o \in Observers : Frame(o)
    \/ \E o \in Observers : WriteGranted(o)
    \/ \E o \in Observers : Acknowledge(o)
    \/ \E o \in Observers : PumpForward(o)

Next ==
    \/ \E p \in Procs : CreateCall(p)
    \/ \E p \in Procs : CreateDirs(p)
    \/ \E p \in Procs : CreateNetwork(p)
    \/ \E p \in Procs : CreateDb(p)
    \/ \E p \in Procs : CreateRender(p)
    \/ \E p \in Procs : CreateMeta(p)
    \/ \E p \in Procs : CreateUp(p)
    \/ \E p \in Procs : Regenerate(p)
    \/ \E p \in Procs : Reload(p)
    \/ \E p \in Procs : DeleteCall(p)
    \/ \E p \in Procs : DeleteDrop(p)
    \/ \E p \in Procs : DeleteDown(p)
    \/ \E p \in Procs : DeleteRemove(p)
    \/ \E p \in Procs : StartCall(p)
    \/ \E p \in Procs : StartUp(p)
    \/ \E p \in Procs : StopCall(p)
    \/ \E p \in Procs : StopDown(p)
    \/ \E p \in Procs : RestartCall(p)
    \/ \E p \in Procs : EnsureCall(p)
    \/ \E p \in Procs : EnsureList(p)
    \/ \E p \in Procs : EnsureStart(p)
    \/ \E p \in Procs : EnsureCreate(p)
    \/ \E p \in Procs : EnsureCreateStart(p)
    \/ \E p \in Procs : EnsureWait(p)
    \/ \E p \in Procs : StartAllCall(p)
    \/ \E p \in Procs : StartAllNetwork(p)
    \/ \E p \in Procs : StartAllNext(p)
    \/ \E p \in Procs : StopAllCall(p)
    \/ \E p \in Procs : StopAllList(p)
    \/ \E p \in Procs : StopAllStep(p)

\* callers interleave at every step
Spec == Init /\ [][Next]_vars

\* one caller: calls are issued in sequence
SeqSpec == InitSeq /\ [][Next]_vars

\* one caller of the database functions
DbSpec == InitDb /\ [][NextDb]_vars

\* observers, the hub and the poller
HubSpec == InitHub /\ [][NextHub]_vars

\* listing while containers exit
ListSpec == InitList /\ [][NextList]_vars

\* sanitize_name over the branch strings
SanSpec == InitSan /\ [][NextSan]_vars

\* the poller, the handlers, the lock and the queues, in any interleaving
ServerSpec == InitServer /\ [][NextServer]_vars

\* concurrent broadcasts
LockSpec == InitServer /\ [][NextLock]_vars

\* ServerSpec where no step the runtime can take is postponed forever; the
\* observers send frames, read their socket and leave when they like
FairServerSpec ==
    /\ ServerSpec
    /\ WF_vars(PollList) /\ WF_vars(PollInspect) /\ WF_vars(PollSleep)
    /\ \A t \in Tasks : WF_vars(ReadGranted(t)) /\ WF_vars(SendStep(t)) /\ WF_vars(ReadRelease(t))
    /\ \A o \in Observers :
          /\ WF_vars(WriteGranted(o)) /\ WF_vars(Acknowledge(o))
          /\ WF_vars(CleanupRequest(o)) /\ WF_vars(EndOfHandler(o)) /\ WF_vars(PumpCancelled(o))

(***************************************************************************)
(* Properties                                                              *)
(***************************************************************************)
\* this step is p issuing a call
Issued(p) ==
    /\ ops' = ops + 1
    /\ pc[p] \in {"idle", "done"}
    /\ \A q \in Procs \ {p} :
          pc'[q] = pc[q] /\ call'[q] = call[q] /\ res'[q] = res[q] /\ loc'[q] = loc[q]

\* p has received the result of a call of operation o
Done(p, o) == pc[p] = "done" /\ call[p].op = o

\* C1: create with an empty resolved name fails with InvalidScratchName, and
\* create with a resolved name whose directory exists fails with
\* ScratchAlreadyExists; either way the call ends at once, and the disk, the
\* network, the containers, the databases and the routing file are unchanged.
C1_CreateRejectsWithoutSideEffects ==
    [][\A p \in Procs :
          (Issued(p) /\ call'[p].op = "create") =>
             /\ call'[p].name = <<>> =>
                   /\ pc'[p] = "done"
                   /\ res'[p] = "InvalidScratchName"
                   /\ UNCHANGED world
             /\ (call'[p].name # <<>> /\ call'[p].name \in dirs) =>
                   /\ pc'[p] = "done"
                   /\ res'[p] = "ScratchAlreadyExists"
                   /\ UNCHANGED world]_vars

\* a create was rejected because the directory exists
C1_Witness ==
    \E p \in Procs :
        /\ Done(p, "create") /\ res[p] = "ScratchAlreadyExists"
        /\ call[p].name \in dirs

AllSucceeded ==
    /\ okAll
    /\ \A p \in Procs :
          /\ pc[p] \in {"idle", "done"}
          /\ call[p].op \in {"create", "delete"} => res[p] = "Ok"

\* C3: after create and delete calls that all returned Ok, a directory
\* exists exactly when its metadata record exists.
C3_DirectoryIffMetadata ==
    AllSucceeded =>
        \A n \in dirs \cup DOMAIN metaFile : n \in dirs /\ n \in DOMAIN metaFile

\* after three calls that all succeeded, creates and deletes among them, the
\* last create's scratch is the one directory on disk and has its metadata
C3_Witness ==
    /\ AllSucceeded
    /\ ops >= 3
    /\ \E p \in Procs : Done(p, "create") /\ call[p].name \in DOMAIN metaFile
    /\ Cardinality(dirs) = 1

\* C4: start, stop and delete of a name without directory fail with
\* ScratchNotFound at once, run no up or down, drop no database, and leave the
\* disk, the runtime and the routing file unchanged.
C4_NotFoundWithoutSideEffects ==
    [][\A p \in Procs :
          ( /\ Issued(p)
            /\ call'[p].op \in {"start", "stop", "delete"}
            /\ call'[p].name \notin dirs ) =>
             /\ pc'[p] = "done"
             /\ res'[p] = "ScratchNotFound"
             /\ loc'[p].nUp = 0 /\ loc'[p].nDown = 0 /\ loc'[p].nDrop = 0
             /\ UNCHANGED world]_vars

\* a delete of a missing scratch was rejected while another scratch exists
C4_Witness ==
    \E p \in Procs :
        /\ Done(p, "delete") /\ res[p] = "ScratchNotFound"
        /\ call[p].name \notin dirs
        /\ dirs # {}

\* C5: a delete step that drops a database or stops the environment never
\* ends the call: whatever its outcome, the call goes on to the remaining
\* cleanup (the next drop, the stop, the removal of the directory).
C5_DeleteBestEffort ==
    [][\A p \in Procs :
          (call[p].op = "delete" /\ pc[p] \in {"d_drop", "d_down"}) =>
              pc'[p] \in {"d_drop", "d_down", "d_rmdir"}]_vars

LateCreateFailure(p) ==
    /\ Done(p, "create")
    /\ res[p] \notin {"Ok", "InvalidScratchName", "ScratchAlreadyExists"}

C8_ConfigErrorsBeforeSideEffects ==
    \A p \in Procs :
        (Done(p, "create") /\ res[p] = "Config") =>
            /\ call[p].name \notin dirs
            /\ loc[p].nConnect = 0
            /\ loc[p].nUp = 0

\* the containers carrying the shared-service label of key k
SharedOf(k) == { c \in containers : c.shared = Some(k) }

\* C9: an ensure_shared_service_running(key) issued right after one that
\* returned Ok finds the container running: unless the runtime fails to list,
\* it returns Ok from the listing step without a create or start call, and
\* exactly one container of that key exists.
C9_EnsureIdempotent ==
    \A p \in Procs :
        (call[p].op = "ensure" /\ prev = call[p].key /\ pc[p] # "idle") =>
            /\ pc[p] \in {"e_list", "done"}
            /\ loc[p].nCreate = 0
            /\ loc[p].nStart = 0
            /\ Cardinality(SharedOf(call[p].key)) = 1
            /\ \A c \in SharedOf(call[p].key) : c.state = "running"
            /\ (pc[p] = "done" /\ loc[p].failedAt # "e_list") => res[p] = "Ok"

\* the second of two consecutive calls returned Ok
C9_Witness ==
    \E p \in Procs :
        /\ Done(p, "ensure") /\ prev = call[p].key /\ res[p] = "Ok"
        /\ Cardinality(SharedOf(call[p].key)) = 1

\* C10: at most one container carries the shared-service label of a
\* catalogue key, and its name is "scratchpad-" followed by the key.
C10_OneSharedContainerPerKey ==
    /\ \A k \in CatalogueKeys : Cardinality(SharedOf(k)) <= 1
    /\ \A c \in containers :
          c.shared.some =>
              c.name = <<"s", "c", "r", "a", "t", "c", "h", "p", "a", "d", "-">>
                          \o KeyChars(c.shared.val)

\* both shared services run while a scratch with a database exists
C10_Witness ==
    /\ \A k \in {"postgres", "redis"} : \E c \in SharedOf(k) : c.state = "running"
    /\ databases # {}

\* C11: when ensure_shared_service_running fails because the wait for the
\* health check ran out, no container is removed and the container of the key
\* exists and runs; a later ensure_shared_service_running of that key never
\* reaches the create step, and unless a runtime call (list, start) itself
\* fails it returns Ok.
C11_TimeoutLeavesContainer ==
    /\ [][\A p \in Procs :
             (pc[p] = "e_wait" /\ pc'[p] = "done" /\ res'[p] = "Other") =>
                /\ loc'[p].polls = timeout_secs
                /\ { c.name : c \in containers' } = { c.name : c \in containers }
                /\ \E c \in SharedOf(call[p].key)' :
                      c.name = SharedContainerName(call[p].key) /\ c.state = "running"]_vars
    /\ [](\A p \in Procs :
             (call[p].op = "ensure" /\ pc[p] # "idle" /\ timedOut # "" /\ timedOut = call[p].key) =>
                /\ pc[p] \in {"e_list", "e_start", "done"}
                /\ loc[p].nCreate = 0
                /\ Cardinality(SharedOf(call[p].key)) = 1
                /\ pc[p] = "done" =>
                      \/ res[p] = "Ok"
                      \/ res[p] = "Docker" /\ loc[p].failedAt \in {"e_list", "e_start"})

\* an ensure_shared_service_running timed out, and a later one of the same
\* key returned Ok
C11_Witness ==
    \E p \in Procs :
        /\ Done(p, "ensure") /\ res[p] = "Ok"
        /\ timedOut = call[p].key
        /\ loc[p].nCreate = 0

\* C12: for a catalogue entry without health check, once
\* ensure_shared_service_running has created and started the container it
\* enters the wait loop, which polls the container until it reports running
\* and fails after timeout_secs polls.
C12_WaitsWithoutHealthCheck ==
    [][\A p \in Procs :
          ( /\ pc[p] = "e_cstart"
            /\ call[p].key \in CatalogueKeys
            /\ ~Catalogue(call[p].key).healthcheck
            /\ containers' # containers ) =>
              pc'[p] = "e_wait"]_vars

\* the containers carrying a shared-service label
SharedContainers == { c \in containers : c.shared.some }

\* this step belongs to the call of p
StepOf(p) == Issued(p) \/ pc'[p] # pc[p] \/ loc'[p] # loc[p]

\* C13: no step of a delete, stop or restart of a scratch changes a
\* shared-service container: none is stopped, removed or added.
C13_ScratchOpsLeaveSharedContainers ==
    [][\A p \in Procs :
          (StepOf(p) /\ call'[p].op \in {"delete", "stop", "restart"}) =>
              SharedContainers' = SharedContainers]_vars

\* a scratch with a database was stopped, started again or deleted while
\* the shared database container was running
C13_Witness ==
    \E p \in Procs :
        /\ pc[p] = "done" /\ call[p].op \in {"delete", "restart"} /\ res[p] = "Ok"
        /\ loc[p].nDown = 1
        /\ \E c \in SharedContainers : c.state = "running"

\* the name matches [A-Za-z0-9_]+
AsciiWord(name) ==
    /\ name # <<>>
    /\ \A i \in 1..Len(name) : name[i] \in Letters \cup Uppers \cup Digits \cup {"_"}

\* C14: create_postgres_database and drop_postgres_database return the
\* invalid-name error, having issued no CREATE or DROP statement, for every
\* name with a character outside [A-Za-z0-9_], and do not return it for a
\* name matching [A-Za-z0-9_]+.
C14_DatabaseNameValidation ==
    \A p \in Procs :
        (pc[p] = "done" /\ call[p].op \in {"createdb", "dropdb"}) =>
            /\ ~AsciiWord(call[p].name) => res[p] = "Config" /\ loc[p].nStmt = 0
            /\ AsciiWord(call[p].name) => res[p] # "Config"

\* this step is the hub or a handler performing operation op
HubStep(op) == hubLast'.n = hubLast.n + 1 /\ hubLast'.op = op

\* sink o is on the sender list of the channel
OnChannel(subs, channel, o) ==
    \E i \in 1..Len(Registered(subs, channel)) : Registered(subs, channel)[i] = o

\* number of entries of sink o on the sender list of the channel
Entries(subs, channel, o) ==
    Cardinality({ i \in 1..Len(Registered(subs, channel)) : Registered(subs, channel)[i] = o })

\* C15: a broadcast on channel C appends exactly one copy of the message to
\* the buffer of every open sink registered on C, and changes no other sink:
\* not one registered only on other channels, and not a closed one.
C15_BroadcastDelivery ==
    [][HubStep("broadcast") =>
          \A o \in Observers :
              IF sinks[o].open /\ OnChannel(subscribers, hubLast'.channel, o)
              THEN sinks'[o] = [sinks[o] EXCEPT !.queue = Append(@, hubLast'.msg)]
              ELSE sinks'[o] = sinks[o]]_vars

\* C16: a cleanup pass leaves no closed sink registered and no channel
\* without sink listed: a channel whose sinks are all closed is no longer in
\* get_channels, and an open sink keeps every registration it had.
C16_CleanupRemovesClosedOnly ==
    [][HubStep("cleanup") =>
          /\ UNCHANGED sinks
          /\ \A channel \in DOMAIN subscribers :
                /\ (\A o \in Observers : OnChannel(subscribers, channel, o) => ~sinks[o].open)
                      => channel \notin get_channels'
                /\ \A o \in Observers :
                      sinks[o].open =>
                          Entries(subscribers', channel, o) = Entries(subscribers, channel, o)
          /\ \A channel \in get_channels' :
                /\ channel \in get_channels
                /\ \E o \in Observers : OnChannel(subscribers', channel, o)
                /\ \A o \in Observers : OnChannel(subscribers', channel, o) => sinks[o].open]_vars

\* a cleanup pass removed a channel whose sinks had closed and kept a
\* channel with an open sink
C16_Witness ==
    /\ hubLast.op = "cleanup"
    /\ \E channel \in hubLast.channels : channel \notin get_channels
    /\ \E channel \in get_channels : \E o \in Observers :
          OnChannel(subscribers, channel, o) /\ sinks[o].open

\* C17: after the Unsubscribe frame of an open sink for channel C the sink
\* is not registered on C.
C17_UnsubscribeRemoves ==
    [][(HubStep("unsubscribe") /\ sinks[hubLast'.by].open) =>
          ~OnChannel(subscribers', hubLast'.channel, hubLast'.by)]_vars

\* C18: once handle_socket has returned, the connection's sender_task has
\* ended or is being cancelled, and once it has ended the connection's sink
\* is registered on no channel.
C18_ConnectionEndCleansUp ==
    \A o \in Observers :
        conns[o].pc = "finished" =>
            /\ conns[o].sender_task \in {"aborted", "ended"}
            /\ conns[o].sender_task = "ended" =>
                  \A channel \in get_channels : ~OnChannel(subscribers, channel, o)

\* C19: for a container that create started for scratch S and service V, the
\* poller's message names scratch S and service V and goes out on status:S.
C19_PollerMapsContainerNames ==
    \A c \in list_scratch_containers :
        /\ extract_scratch_name(c.name) = Some(c.scratch.val)
        /\ extract_service_name(c.name) = KeyChars(c.service.val)
        /\ PollMessage(c, 1).scratch = c.scratch.val
        /\ PollMessage(c, 1).service = KeyChars(c.service.val)
        /\ PollChannel(c) = status_channel(c.scratch.val)

\* C20: every entry that list_scratches or get_scratch_status returns has
\* status "running" exactly when the scratch has a labelled container and all
\* of them run, "partial" exactly when some but not all run, and "stopped"
\* exactly when none runs or there is none.
C20_StatusOfEntries ==
    [][(listing' # listing /\ listing'.res = "Ok") =>
          \A i \in 1..Len(listing'.entries) :
              LET e == listing'.entries[i]
                  labelled == { c \in containers : c.scratch = Some(e.name) }
                  running == { c \in labelled : c.state = "running" }
              IN  /\ e.status \in {"running", "partial", "stopped"}
                  /\ e.status = "running" <=> (labelled # {} /\ running = labelled)
                  /\ e.status = "partial" <=> (running # {} /\ running # labelled)
                  /\ e.status = "stopped" <=> running = {}]_vars

\* a listing reports one scratch partial and the other running or stopped
C20_Witness ==
    /\ listing.op = "list" /\ listing.res = "Ok" /\ Len(listing.entries) = 2
    /\ \E i \in 1..2 : listing.entries[i].status = "partial"
    /\ \E i \in 1..2 : listing.entries[i].status \in {"running", "stopped"}

\* C21: a list() call returns Ok or the runtime's error, whatever the state
\* of the metadata records; when it returns Ok there is exactly one entry per
\* scratch directory, sorted by name, an entry whose metadata record is
\* missing or unparsable carries the default fields and every other entry
\* the fields of its own record.
C21_ListToleratesMetadata ==
    [][(listing' # listing /\ listing'.op = "list") =>
          /\ listing'.res \in {"Ok", "Docker"}
          /\ listing'.res = "Ok" =>
                LET es == listing'.entries
                IN  /\ Len(es) = Cardinality(dirs)
                    /\ { es[i].name : i \in 1..Len(es) } = dirs
                    /\ \A i, j \in 1..Len(es) :
                          i < j => /\ es[i].name # es[j].name
                                   /\ StrLeq(es[i].name, es[j].name)
                    /\ \A i \in 1..Len(es) :
                          LET n == es[i].name
                          IN  IF n \in DOMAIN metaFile /\ metaFile[n] # Unparsable
                              THEN /\ es[i].branch = metaFile[n].branch
                                   /\ es[i].databases = metaFile[n].databases
                              ELSE /\ es[i].branch = n
                                   /\ es[i].databases = <<>>]_vars

\* a listing succeeded over two directories, one of them without a usable
\* metadata record, and reports that one with the default fields
C21_Witness ==
    /\ listing.op = "list" /\ listing.res = "Ok" /\ Len(listing.entries) = 2
    /\ ~MetadataLoads(<<"a", "-", "b">>)
    /\ \E i \in 1..2 : /\ listing.entries[i].name = <<"a", "-", "b">>
                        /\ listing.entries[i].branch = <<"a", "-", "b">>
    /\ \E i \in 1..2 : /\ listing.entries[i].name = <<"a">>
                        /\ listing.entries[i].databases = <<DbNameOf(<<"a">>)>>

\* what exists for the scratch name n: its directory, its rendered
\* specification, its metadata record, its containers and its database
ResourcesOf(n) ==
    [dir |-> n \in dirs,
     compose |-> IF n \in DOMAIN composeFile THEN Some(composeFile[n]) ELSE None,
     metadata |-> IF n \in DOMAIN metaFile THEN Some(metaFile[n]) ELSE None,
     containers |-> { c \in containers : c.scratch = Some(n) },
     database |-> DbNameOf(n) \in databases]

\* the scratch names that have a directory, a file or a container
KnownNames ==
    dirs \cup DOMAIN composeFile \cup DOMAIN metaFile
         \cup { c.scratch.val : c \in { d \in containers : d.scratch.some } }

C23_RestartStopsThenStarts ==
    [][\A p \in Procs :
          (StepOf(p) /\ call'[p].op = "restart") =>
              /\ pc'[p] = "s_up" =>
                    /\ pc[p] = "t_down"
                    /\ loc'[p].nDown = 1 /\ loc'[p].nUp = 0
                    /\ { c \in containers' : c.scratch = Some(call'[p].name) } = {}
              /\ loc'[p].nUp > loc[p].nUp => pc[p] = "s_up"
              /\ (pc[p] = "t_down" /\ pc'[p] = "done") =>
                    /\ res'[p] # "Ok"
                    /\ loc'[p].nUp = 0
              /\ (pc'[p] = "done" /\ res'[p] = "Ok") =>
                    /\ pc[p] = "s_up"
                    /\ loc'[p].nDown = 1 /\ loc'[p].nUp = 1]_vars

\* a restart has stopped the scratch and not yet started it: a list() taken
\* now reports the scratch with no service and the status "stopped"
C23_Witness ==
    \E p \in Procs :
        /\ pc[p] = "s_up" /\ call[p].op = "restart"
        /\ \E i \in 1..Len(list_scratches) :
              /\ list_scratches[i].name = call[p].name
              /\ list_scratches[i].services = << >>
              /\ list_scratches[i].status = "stopped"

\* C24: the force flag has no influence on delete: the call stands after its
\* first lines where a call with the other flag value would stand, and every
\* later step of its own code is also a step of the call with the other flag
\* value, leading to the same result and the same state.
C24_ForceHasNoEffect ==
    [][\A p \in Procs :
          (StepOf(p) /\ call'[p].op = "delete") =>
              LET other == ~call'[p].force
              IN  /\ Issued(p) =>
                        /\ world' = world
                        /\ pc'[p] = DeleteEntry(call'[p].name, other).pc
                        /\ res'[p] = DeleteEntry(call'[p].name, other).res
                        /\ loc'[p] = DeleteEntry(call'[p].name, other).loc
                  /\ pc[p] = "d_drop" => DeleteDropWith(p, other)
                  /\ pc[p] = "d_down" => DeleteDownWith(p, other)
                  /\ pc[p] = "d_rmdir" => DeleteRemoveWith(p, other)]_vars

\* a delete called with force ended with the error of a failed stop; the
\* directory and the containers of the scratch are still there
C24_Witness ==
    \E p \in Procs :
        /\ Done(p, "delete") /\ call[p].force
        /\ res[p] = "Other" /\ loc[p].failedAt = "d_down"
        /\ call[p].name \in dirs
        /\ ResourcesOf(call[p].name).containers # {}

\* C25: sanitize_name is idempotent: applied to a string it returned, it
\* returns that string.
C25_SanitizeIdempotent ==
    san.again.some => san.again.val = san.result.val

\* a branch string that sanitize_name changed, to a non-empty name, has been
\* sanitized twice
C25_Witness ==
    /\ san.again.some
    /\ san.result.val # san.branch
    /\ san.result.val # <<>>
    /\ \E i \in 1..Len(san.branch) : san.branch[i] \in {"/", "-"}

\* C26: the string sanitize_name returns is lowercase, has no two
\* consecutive '-' and neither starts nor ends with '-'; for a branch
\* without a letter, digit or '_' it is the empty string.
C26_SanitizeShape ==
    san.result.some =>
        LET r == san.result.val
        IN  /\ \A i \in 1..Len(r) : ~IsUppercase(r[i])
            /\ \A i \in 1..(Len(r) - 1) : ~(r[i] = "-" /\ r[i + 1] = "-")
            /\ r # <<>> => (r[1] # "-" /\ r[Len(r)] # "-")
            /\ (\A i \in 1..Len(san.branch) :
                    ~IsAlphanumeric(san.branch[i]) /\ san.branch[i] # "_") => r = <<>>

\* C27: the name of every scratch that create has persisted (its directory
\* made, its metadata record written) is non-empty and is its own
\* sanitize_name result.
C27_PersistedNamesAreSlugs ==
    \A n \in dirs \cap DOMAIN metaFile :
        n # <<>> /\ sanitize_name(n) = n

\* the names of the entries list() returns, in their order
ListedByList == [i \in 1..Len(list_scratches) |-> list_scratches[i].name]

\* this step is regenerate_config writing the routing file for p
Regenerated(p) == pc[p] = "regen" /\ pc'[p] = "reload" /\ cfg.enabled

\* C28: the document regenerate writes in static mode has exactly one
\* upstream block and exactly one server or location block for each scratch
\* directory, in the order of list(); the document it writes in dynamic mode
\* has no per-scratch block and is the document it wrote before, whatever
\* the scratches were then and are now.
C28_RegenerateBlocks ==
    [][\A p \in Procs :
          Regenerated(p) =>
              /\ routingFile'.written
              /\ ~cfg.dynamic =>
                    /\ routingFile'.mode = "static"
                    /\ routingFile'.upstreams = ListedByList
                    /\ routingFile'.routes = ListedByList
                    /\ Len(routingFile'.upstreams) = Cardinality(dirs)
                    /\ { routingFile'.upstreams[i] : i \in 1..Len(routingFile'.upstreams) } = dirs
              /\ cfg.dynamic =>
                    /\ routingFile'.mode = "dynamic"
                    /\ routingFile'.upstreams = <<>> /\ routingFile'.routes = <<>>
                    /\ routingFile.written => routingFile' = routingFile]_vars

\* the static document was regenerated while two scratches existed
C28_Witness ==
    /\ routingFile.written /\ routingFile.mode = "static"
    /\ Len(routingFile.upstreams) = 2 /\ Len(routingFile.routes) = 2
    /\ Cardinality(dirs) = 2

\* this step ends a create or delete call of p that changed the set of
\* scratch directories: the directory of a create that got past its checks
\* exists, the directory of a delete that found it is gone
ChangedScratchSet(p) ==
    /\ StepOf(p) /\ pc'[p] = "done"
    /\ \/ /\ call'[p].op = "create"
          /\ res'[p] \notin {"InvalidScratchName", "ScratchAlreadyExists"}
          /\ call'[p].name \in dirs'
       \/ /\ call'[p].op = "delete"
          /\ res'[p] # "ScratchNotFound"
          /\ call'[p].name \notin dirs'

\* C29: with routing enabled in static mode and an ingress service set, when
\* a create or delete call that changed the set of scratch directories ends,
\* with success or with an error, the routing file has been written and has
\* exactly one upstream block per scratch that list() returns.
C29_StaticRoutingFollowsScratchSet ==
    [][\A p \in Procs :
          (ChangedScratchSet(p) /\ cfg.enabled /\ ~cfg.dynamic /\ cfg.ingress_service # "") =>
              /\ routingFile'.written
              /\ routingFile'.upstreams = ListedByList']_vars

\* the name begins with the namespace prefix "scratchpad-"
HasNamespacePrefix(name) ==
    /\ Len(name) >= Len(ScratchpadPrefix)
    /\ SubSeq(name, 1, Len(ScratchpadPrefix)) = ScratchpadPrefix

\* C30: the name of every container this system has created, per-scratch or
\* shared, begins with the namespace prefix.
C30_NamesCarryNamespacePrefix ==
    \A c \in containers : HasNamespacePrefix(c.name)

\* C31: nothing serializes two creates of one name: a create fails with
\* ScratchAlreadyExists only at its own check, when the directory exists at
\* that moment, and a create that passed the check makes the directory and
\* goes on, whether or not another create made it in between.
C31_CreateCheckThenMake ==
    [][\A p \in Procs :
          (StepOf(p) /\ call'[p].op = "create") =>
              /\ res'[p] = "ScratchAlreadyExists" =>
                    Issued(p) /\ call'[p].name \in dirs
              /\ pc[p] = "c_mkdir" =>
                    pc'[p] = "c_network" /\ call'[p].name \in dirs']_vars

\* two creates of the same name have both returned Ok
C31_Witness ==
    /\ Done("p1", "create") /\ Done("p2", "create")
    /\ call["p1"].name = call["p2"].name
    /\ res["p1"] = "Ok" /\ res["p2"] = "Ok"
    /\ call["p1"].name \in dirs

\* the shared container of key is reported ready in the next state
ReadyNext(key) ==
    \E c \in containers' : c.name = SharedContainerName(key) /\ ReportsHealthy(c)

\* C36: the health-check wait is bounded: every iteration either ends the
\* wait or adds one to the number of inspections, which never exceeds
\* timeout_secs; the wait goes on only after an inspection that did not
\* report the container ready, returns success at the first one that does,
\* and fails with the timeout error exactly at inspection number
\* timeout_secs.
C36_WaitIsBounded ==
    [][\A p \in Procs :
          (StepOf(p) /\ pc[p] = "e_wait") =>
              /\ loc[p].polls < timeout_secs
              /\ pc'[p] = "e_wait" =>
                    /\ loc'[p].polls = loc[p].polls + 1
                    /\ loc'[p].polls < timeout_secs
                    /\ ~ReadyNext(call[p].key)
              /\ (pc'[p] = "done" /\ res'[p] = "Other") =>
                    /\ loc'[p].polls = timeout_secs
                    /\ ~ReadyNext(call[p].key)
              /\ (ReadyNext(call[p].key) /\ res'[p] # "Docker") =>
                    pc'[p] # "e_wait" /\ res'[p] # "Other"]_vars

\* a wait ended with the timeout error after timeout_secs inspections of a
\* running container whose health check never passed
C36_Witness ==
    \E p \in Procs :
        /\ Done(p, "ensure") /\ res[p] = "Other" /\ loc[p].failedAt = "e_wait"
        /\ loc[p].polls = timeout_secs
        /\ \E c \in containers :
              /\ c.name = SharedContainerName(call[p].key)
              /\ c.state = "running" /\ c.health = "starting"

\* C37: whenever create provisions the database of a name it accepted, the
\* name scratch_<name> passes the identifier validation, and no create ends
\* at the provisioning step with the validation's error.
C37_DerivedDatabaseNameIsValid ==
    \A p \in Procs :
        call[p].op = "create" =>
            /\ pc[p] = "c_createdb" => ValidDbName(DbNameOf(call[p].name))
            /\ (pc[p] = "done" /\ loc[p].failedAt = "c_createdb") => res[p] # "Config"

\* C38: when a delete of a directory that has no rendered specification
\* (left by a create that failed before writing it) ends, the directory is
\* gone, so the name is free for a new create.
C38_DeleteRemovesPartialDirectory ==
    [][\A p \in Procs :
          ( /\ StepOf(p) /\ call'[p].op = "delete" /\ pc'[p] = "done"
            /\ res'[p] # "ScratchNotFound"
            /\ call'[p].name \notin DOMAIN composeFile ) =>
              call'[p].name \notin dirs']_vars

\* C40: a call of ensure_shared_service_running that found no container of
\* its key and reaches the creation after a concurrent call created it does
\* not fail: both calls return success over the one container.
C40_ConcurrentEnsureBothSucceed ==
    [][\A p \in Procs :
          ( /\ StepOf(p) /\ pc[p] = "e_create"
            /\ \E c \in containers : c.name = SharedContainerName(call[p].key) ) =>
              res'[p] \notin Errors]_vars

\* C32: while a broadcast on one channel holds read access, a broadcast on
\* another channel that asks for read access can be given it at once,
\* whoever else waits for the lock.
C32_BroadcastsShareReadAccess ==
    \A a, b \in Tasks :
        ( /\ a \in lock.readers
          /\ tasks[b].pc = "read"
          /\ tasks[a].channel # tasks[b].channel ) => CanAcquire(b, "read")

\* a sender of the observer o is in the map of the hub
IsRegistered(o) ==
    \E channel \in DOMAIN subscribers :
        \E i \in 1..Len(subscribers[channel]) : subscribers[channel][i] = o

\* C33: a registered sender whose receiver is gone is eventually taken out
\* of the map, whether or not an observer subscribes or unsubscribes again.
C33_ClosedSenderIsSwept ==
    \A o \in Observers : (IsRegistered(o) /\ ~sinks[o].open) ~> ~IsRegistered(o)

\* C34: the poller never ends, whatever the runtime answers to its queries.
C34_PollerSurvivesFailedQuery == tasks["poller"].pc # "ended"

\* C35: the poller publishes the status of a container only when it differs
\* from the status it published for that container in the cycle before.
C35_PollerPublishesChangesOnly ==
    [][( tasks["poller"].pc = "inspect" /\ tasks'["poller"].pc = "read" ) =>
          LET name == Head(tasks["poller"].todo)
          IN  \/ name \notin DOMAIN tasks["poller"].seen
              \/ tasks["poller"].seen[name] # tasks'["poller"].msg.body]_vars

\* C39: a broadcast that was given read access returns, also when an
\* observer has stopped reading its queue.
C39_BroadcastCompletes ==
    \A t \in Tasks : (tasks[t].pc = "send") ~> (tasks[t].pc # "send")

====
